---- MODULE Spec2Model ----
(***************************************************************************)
(* Model of go-andiamo/sqlnt: named-argument SQL templates.                *)
(*                                                                         *)
(* Strings are sequences of one-character strings (runes).  A template is  *)
(* a record with the fields of the Go struct namedTemplate; its args map   *)
(* is a function from names (rune sequences) to namedArg records.          *)
(***************************************************************************)
EXTENDS Integers, Sequences, FiniteSets, TLC

VARIABLES
    input,      \* arguments of the last NewNamedTemplate call (statement, option,
                \* tokenOptions) or Append call (the portion as statement) made
                \* on the template held
    tmpl,       \* the template the caller holds (NoTemplate before / on failure)
    err,        \* the error returned by the last call (NoError when none)
    derived,    \* the template returned by Clone / Append (NoTemplate when none)
    lastArgs,   \* the merged mapping of the last Args call
    out,        \* the positional values returned by the last Args call
    panic,      \* the run-time panic that ended the last call (NoPanic when none)
    op,         \* name of the last operation performed
    refs,       \* the namedArg object behind each entry of tmpl and of derived
    call,       \* the arguments of the last mutator or Args call (NoCall when none)
    info,       \* the maps GetArgNames and GetArgsInfo returned, as the caller
                \* holds them
    procs,      \* the Args invocations that run concurrently, each with its
                \* position and its local variables
    build       \* the NewNamedTemplate call in progress, when it is followed
                \* pass by pass

vars == <<input, tmpl, err, derived, lastArgs, out, panic, op, refs, call, info, procs,
          build>>

----------------------------------------------------------------------------
(* Bounds of the model *)

\* longest statement (in pieces) compiled when only the marker scan is exercised
MaxScanLen == 4
\* longest statement (in pieces) compiled when token pieces are present
MaxTokLen == 3
\* longest statement (in pieces) of a template that is bound or derived
MaxStmtLen == 2

----------------------------------------------------------------------------
(* Strings *)

\* concatenation of a sequence of strings
RECURSIVE Flatten(_)
Flatten(ss) == IF ss = <<>> THEN <<>> ELSE Head(ss) \o Flatten(Tail(ss))

\* all sequences over S of length 0..n
SeqsUpTo(S, n) == UNION { [1..k -> S] : k \in 0..n }

\* runes[from:to] of Go (0-based, to exclusive)
Slice(runes, from, to) == IF to > from THEN SubSeq(runes, from + 1, to) ELSE <<>>

\* runes[i] of Go (0-based)
At(runes, i) == runes[i + 1]

\* strings.Contains(s, sub) for a two-rune sub
Contains2(s, sub) ==
    \E i \in 1..(Len(s) - 1) : s[i] = sub[1] /\ s[i + 1] = sub[2]

Digits == <<"0", "1", "2", "3", "4", "5", "6", "7", "8", "9">>

\* strconv.Itoa for n >= 0, also what %d prints
RECURSIVE Itoa(_)
Itoa(n) == IF n < 10 THEN <<Digits[n + 1]>>
           ELSE Itoa(n \div 10) \o <<Digits[(n % 10) + 1]>>

\* strings.Join(elems, sep)
RECURSIVE Join(_, _)
Join(elems, sep) ==
    IF elems = <<>> THEN <<>>
    ELSE IF Len(elems) = 1 THEN elems[1]
    ELSE elems[1] \o sep \o Join(Tail(elems), sep)

----------------------------------------------------------------------------
(* Errors and values *)

NoError == [fmt |-> "", arg |-> <<>>]
Errorf(format, a) == [fmt |-> format, arg |-> a]

\* a nil pointer dereference while the entry `at` was being handled
NoPanic == [raised |-> FALSE, at |-> <<>>]
NilDereference(name) == [raised |-> TRUE, at |-> name]

NilValue == [kind |-> "nil", s |-> ""]
StringValue(s) == [kind |-> "string", s |-> s]
\* a *string pointing at the text s
StringPtr(s) == [kind |-> "strptr", s |-> s]
\* a *string that is nil
NilStringPtr == [kind |-> "nilstrptr", s |-> ""]
IntValue == [kind |-> "int", s |-> "7"]

----------------------------------------------------------------------------
(* Options *)

MySqlOption == [usePositionalTags |-> FALSE, argTag |-> <<"?">>]
PostgresOption == [usePositionalTags |-> TRUE, argTag |-> <<"$">>]
DefaultsOption == [usePositionalTags |-> FALSE, argTag |-> <<"?">>]

Options == {MySqlOption, PostgresOption}

\* Two token capabilities (TokenOption.Replace): a function from the tokens
\* the capability recognises to their replacement text.
CapA == (<<"t">> :> <<"a">>) @@ (<<"n">> :> <<"{", "{", "t", "}", "}">>)
        @@ (<<"m">> :> <<"{", "{", "n", "}", "}">>)
CapB == (<<"t">> :> <<"b">>) @@ (<<"n">> :> <<"{", "{", "u", "}", "}">>)

\* Replace(token) of capability tr: replacement and ok
Replace(tr, token) ==
    IF token \in DOMAIN tr THEN [r |-> tr[token], ok |-> TRUE]
    ELSE [r |-> <<>>, ok |-> FALSE]

TokenOptionLists == {<<>>, <<CapA>>, <<CapA, CapB>>, <<CapB, CapA>>}

----------------------------------------------------------------------------
(* Templates *)

NoTemplate == [originalStatement |-> <<>>, statement |-> <<>>, args |-> <<>>,
               argsCount |-> -1, usePositionalTags |-> FALSE, argTag |-> <<>>,
               tokenOptions |-> <<>>]

newNamedTemplate(statement, usePositionalTags, argTag, tokenOptions) ==
    [originalStatement |-> statement, statement |-> <<>>, args |-> <<>>,
     argsCount |-> 0, usePositionalTags |-> usePositionalTags,
     argTag |-> argTag, tokenOptions |-> tokenOptions]

NoDefault == [kind |-> "nil", v |-> NilValue, id |-> ""]

newNamedArg(tag, positions, omissible) ==
    [tag |-> tag, positions |-> positions, omissible |-> omissible,
     defValue |-> NoDefault, nullableString |-> FALSE]

\* mutant of setOmissible: the guard is dropped, a later unmarked
\* occurrence resets the flag
setOmissible_Overwrite(a, omissible) == [a EXCEPT !.omissible = omissible]

\* namedArg.setOmissible
setOmissible(a, omissible) ==
    IF ~a.omissible THEN [a EXCEPT !.omissible = omissible] ELSE a

----------------------------------------------------------------------------
(* Token substitution: named_template_build.go, replaceTokens *)

\* end of the [^}]* run that starts at 0-based index i: the index of the
\* first "}" at or after i, or the length of s
RECURSIVE RunEnd(_, _)
RunEnd(s, i) ==
    IF i >= Len(s) THEN Len(s)
    ELSE IF At(s, i) = "}" THEN i
    ELSE RunEnd(s, i + 1)

\* tokenRegexp \{\{([^}]*)}} matches at 0-based index i of s
TokenMatchAt(s, i) ==
    /\ i + 1 < Len(s)
    /\ At(s, i) = "{"
    /\ At(s, i + 1) = "{"
    /\ LET k == RunEnd(s, i + 2)
       IN  k + 1 < Len(s) /\ At(s, k) = "}" /\ At(s, k + 1) = "}"

\* index just past the match that starts at i
TokenMatchEnd(s, i) == RunEnd(s, i + 2) + 2

\* mutant of FirstReplacement: the last capability that recognises the
\* token wins
RECURSIVE FirstReplacement_Last(_, _)
FirstReplacement_Last(tokenOptions, token) ==
    IF tokenOptions = <<>> THEN [r |-> <<>>, ok |-> FALSE]
    ELSE LET rest == FirstReplacement_Last(Tail(tokenOptions), token)
         IN  IF rest.ok THEN rest ELSE Replace(Head(tokenOptions), token)

\* the loop over n.tokenOptions in the replacement callback: the first
\* capability whose Replace says ok supplies the text
RECURSIVE FirstReplacement(_, _)
FirstReplacement(tokenOptions, token) ==
    IF tokenOptions = <<>> THEN [r |-> <<>>, ok |-> FALSE]
    ELSE LET x == Replace(Head(tokenOptions), token)
         IN  IF x.ok THEN x ELSE FirstReplacement(Tail(tokenOptions), token)

\* tokenRegexp.ReplaceAllStringFunc with the callback of replaceTokens:
\* leftmost non-overlapping matches, scanning from 0-based index i
RECURSIVE ReplaceAllTokens(_, _, _, _, _)
ReplaceAllTokens(s, i, tokenOptions, acc, errs) ==
    IF i >= Len(s) THEN [text |-> acc, errs |-> errs]
    ELSE IF TokenMatchAt(s, i)
    THEN LET end   == TokenMatchEnd(s, i)
             token == Slice(s, i + 2, end - 2)
             x     == FirstReplacement(tokenOptions, token)
         IN  IF x.ok
             THEN ReplaceAllTokens(s, end, tokenOptions, acc \o x.r, errs)
             ELSE ReplaceAllTokens(s, end, tokenOptions, acc, Append(errs, token))
    ELSE ReplaceAllTokens(s, i + 1, tokenOptions, Append(acc, At(s, i)), errs)

\* a replaceTokens that never repeats the pass
replaceTokens_Once(n, first) ==
    LET x  == ReplaceAllTokens(n.originalStatement, 0, n.tokenOptions, <<>>, <<>>)
        n1 == [n EXCEPT !.originalStatement = x.text]
    IN  IF Len(x.errs) = 1
        THEN [n |-> n1, err |-> Errorf("unknown token: %s", x.errs[1])]
        ELSE IF Len(x.errs) > 0
        THEN [n |-> n1, err |-> Errorf("unknown tokens: %s", Join(x.errs, <<",", " ">>))]
        ELSE [n |-> n1, err |-> NoError]

\* namedTemplate.replaceTokens(first): the template with its originalStatement
\* replaced, and the error
RECURSIVE replaceTokens(_, _)
replaceTokens(n, first) ==
    LET x  == ReplaceAllTokens(n.originalStatement, 0, n.tokenOptions, <<>>, <<>>)
        n1 == [n EXCEPT !.originalStatement = x.text]
    IN  IF Len(x.errs) = 1
        THEN [n |-> n1, err |-> Errorf("unknown token: %s", x.errs[1])]
        ELSE IF Len(x.errs) > 0
        THEN [n |-> n1, err |-> Errorf("unknown tokens: %s", Join(x.errs, <<",", " ">>))]
        ELSE IF first /\ Contains2(x.text, <<"{", "{">>) /\ Contains2(x.text, <<"}", "}">>)
        THEN replaceTokens(n1, FALSE)
        ELSE [n |-> n1, err |-> NoError]

----------------------------------------------------------------------------
(* Marker scan: named_template_build.go, buildArgs *)

NameRunes == {"a", "b"}

isNameRune(r) == r \in NameRunes

\* mutant of addNamedArgPositional: a repeat occurrence allocates a position
addNamedArgPositional_Realloc(n, name, omissible) ==
    IF name \in DOMAIN n.args
    THEN [n   |-> [n EXCEPT !.args[name] = setOmissible(@, omissible),
                            !.argsCount = @ + 1],
          tag |-> n.args[name].tag]
    ELSE LET tag == n.argTag \o Itoa(n.argsCount + 1)
         IN  [n   |-> [n EXCEPT !.args = (name :> newNamedArg(tag, <<n.argsCount>>, omissible)) @@ @,
                                !.argsCount = @ + 1],
              tag |-> tag]

\* namedTemplate.addNamedArgPositional: the template and the tag written
addNamedArgPositional(n, name, omissible) ==
    IF name \in DOMAIN n.args
    THEN [n   |-> [n EXCEPT !.args[name] = setOmissible(@, omissible)],
          tag |-> n.args[name].tag]
    ELSE LET tag == n.argTag \o Itoa(n.argsCount + 1)
         IN  [n   |-> [n EXCEPT !.args = (name :> newNamedArg(tag, <<n.argsCount>>, omissible)) @@ @,
                                !.argsCount = @ + 1],
              tag |-> tag]

\* mutant of addNamedArgNonPositional: a repeat occurrence records no position
addNamedArgNonPositional_NoAppend(n, name, omissible) ==
    IF name \in DOMAIN n.args
    THEN [n   |-> [n EXCEPT !.args[name] = setOmissible(@, omissible),
                            !.argsCount = @ + 1],
          tag |-> n.argTag]
    ELSE [n   |-> [n EXCEPT !.args = (name :> newNamedArg(n.argTag, <<n.argsCount>>, omissible)) @@ @,
                            !.argsCount = @ + 1],
          tag |-> n.argTag]

\* namedTemplate.addNamedArgNonPositional
addNamedArgNonPositional(n, name, omissible) ==
    IF name \in DOMAIN n.args
    THEN [n   |-> [n EXCEPT !.args[name] =
                        [setOmissible(@, omissible) EXCEPT !.positions = Append(@, n.argsCount)],
                            !.argsCount = @ + 1],
          tag |-> n.argTag]
    ELSE [n   |-> [n EXCEPT !.args = (name :> newNamedArg(n.argTag, <<n.argsCount>>, omissible)) @@ @,
                            !.argsCount = @ + 1],
          tag |-> n.argTag]

\* namedTemplate.addNamedArg
addNamedArg(n, name, omissible) ==
    IF n.usePositionalTags
    THEN addNamedArgPositional(n, name, omissible)
    ELSE addNamedArgNonPositional(n, name, omissible)

\* the loop of getNamed: first 0-based index at or after i that holds no name rune
RECURSIVE NameEnd(_, _)
NameEnd(runes, i) ==
    IF i < Len(runes) /\ isNameRune(At(runes, i)) THEN NameEnd(runes, i + 1) ELSE i

\* mutant of getNamed: the error reports the offset after the colon
getNamed_OffByOne(runes, pos) ==
    LET rlen == Len(runes)
        i    == NameEnd(runes, pos + 1)
        skip == i - (pos + 1)
    IN  IF skip = 0
        THEN [name |-> <<>>, skip |-> 0, omissible |-> FALSE,
              err |-> Errorf("named marker ':' without name (at position %d)", Itoa(pos + 1))]
        ELSE LET omissible == (i + 1) <= rlen /\ At(runes, i) = "?"
             IN  [name |-> Slice(runes, pos + 1, i),
                  skip |-> IF omissible THEN skip + 1 ELSE skip,
                  omissible |-> omissible, err |-> NoError]

\* the closure getNamed of buildArgs
getNamed(runes, pos) ==
    LET rlen == Len(runes)
        i    == NameEnd(runes, pos + 1)
        skip == i - (pos + 1)
    IN  IF skip = 0
        THEN [name |-> <<>>, skip |-> 0, omissible |-> FALSE,
              err |-> Errorf("named marker ':' without name (at position %d)", Itoa(pos))]
        ELSE LET omissible == (i + 1) <= rlen /\ At(runes, i) = "?"
             IN  [name |-> Slice(runes, pos + 1, i),
                  skip |-> IF omissible THEN skip + 1 ELSE skip,
                  omissible |-> omissible, err |-> NoError]

\* the closure purge of buildArgs: the builder after purge(pos)
purge(builder, runes, lastPos, pos) ==
    IF pos > lastPos THEN builder \o Slice(runes, lastPos, pos) ELSE builder

\* mutant of escapeLastPos: the escape emits no colon
escapeLastPos_Drop(pos) == pos + 1

\* lastPos after the double-colon escape at pos (pos is the second colon)
escapeLastPos(pos) == pos

\* the for loop of buildArgs from 0-based index pos
RECURSIVE scanLoop(_, _, _, _, _)
scanLoop(n, runes, pos, lastPos, builder) ==
    IF pos >= Len(runes)
    THEN [n |-> n, lastPos |-> lastPos, builder |-> builder, err |-> NoError]
    ELSE IF At(runes, pos) = ":"
    THEN LET b1 == purge(builder, runes, lastPos, pos)
         IN  IF (pos + 1) < Len(runes) /\ At(runes, pos + 1) = ":"
             THEN scanLoop(n, runes, pos + 2, escapeLastPos(pos + 1), b1)
             ELSE LET g == getNamed(runes, pos)
                  IN  IF g.err # NoError
                      THEN [n |-> n, lastPos |-> lastPos, builder |-> b1, err |-> g.err]
                      ELSE LET a == addNamedArg(n, g.name, g.omissible)
                           IN  scanLoop(a.n, runes, pos + g.skip + 1,
                                        pos + g.skip + 1, b1 \o a.tag)
    ELSE scanLoop(n, runes, pos + 1, lastPos, builder)

\* the end of buildArgs: the error of the scan, or the statement completed by
\* the last purge
buildArgsEnd(runes, s) ==
    IF s.err # NoError THEN [n |-> s.n, err |-> s.err]
    ELSE [n   |-> [s.n EXCEPT !.statement = purge(s.builder, runes, s.lastPos, Len(runes))],
          err |-> NoError]

\* buildArgs after replaceTokens has returned t
buildArgsScan(t) ==
    IF t.err # NoError THEN [n |-> t.n, err |-> t.err]
    ELSE buildArgsEnd(t.n.originalStatement,
                      scanLoop([t.n EXCEPT !.argsCount = 0], t.n.originalStatement, 0, 0, <<>>))

\* namedTemplate.buildArgs: the template as the call leaves it, and the error.
\* On an error the template keeps what was built before the error.
buildArgs(n) == buildArgsScan(replaceTokens(n, TRUE))

\* what NewNamedTemplate returns once buildArgs has returned b
newResult(b) ==
    IF b.err # NoError THEN [n |-> NoTemplate, err |-> b.err]
    ELSE [n |-> b.n, err |-> NoError]

\* NewNamedTemplate with the option and token options already separated
\* by getOptions: the template returned (NoTemplate on error) and the error
NewNamedTemplateResult(statement, opt, tokenOptions) ==
    newResult(buildArgs(newNamedTemplate(statement, opt.usePositionalTags,
                                         opt.argTag, tokenOptions)))

----------------------------------------------------------------------------
(* Binding: named_arg.go value / defaultedValue, named_template_util.go    *)
(* mappedArgs, namedTemplate.Args                                          *)

\* mutant of value: the case *string is missing
value_NoPointer(a, v) ==
    IF a.nullableString /\ v.kind = "string"
    THEN [v |-> IF v.s = "" THEN NilValue ELSE v, panics |-> FALSE]
    ELSE [v |-> v, panics |-> FALSE]

\* namedArg.value: the value written, or a panic when a nil *string is
\* dereferenced
value(a, v) ==
    IF a.nullableString
    THEN IF v.kind = "string"
         THEN [v |-> IF v.s = "" THEN NilValue ELSE v, panics |-> FALSE]
         ELSE IF v.kind = "strptr"
         THEN [v |-> IF v.s = "" THEN NilValue ELSE v, panics |-> FALSE]
         ELSE IF v.kind = "nilstrptr"
         THEN [v |-> v, panics |-> TRUE]
         ELSE [v |-> v, panics |-> FALSE]
    ELSE [v |-> v, panics |-> FALSE]

\* a default provider: a func(name string) any given to DefaultValue, or the
\* closure DefaultValue builds around a plain value
ConstProvider(v) == [kind |-> "const", v |-> v, id |-> ""]
FuncProvider(id) == [kind |-> "func", v |-> NilValue, id |-> id]

\* the call a.defValue(name)
CallProvider(p, name) ==
    IF p.kind = "const" THEN p.v
    ELSE StringValue(name[1])

\* namedArg.defaultedValue
defaultedValue(a, name) == value(a, CallProvider(a.defValue, name))

\* the sources accepted by mappedArgs
NilSource == [kind |-> "nil", m |-> <<>>]
MapSource(m) == [kind |-> "map", m |-> m]
\* sql.NamedArg and a *sql.NamedArg that points at one
NamedArgSource(name, v) == [kind |-> "named", m |-> (name :> v)]
\* a *sql.NamedArg that is nil: the interface holding it is not nil
NilNamedArgPointer == [kind |-> "nilnamedptr", m |-> <<>>]
\* a map that is not a map[string]any, with string keys
StringKeyedMap(m) == [kind |-> "reflectmap", m |-> m]
\* a map with a key that is no string
NonStringKeyedMap == [kind |-> "badmap", m |-> <<>>]
\* a struct, m its fields by their JSON names
StructSource(m) == [kind |-> "struct", m |-> m]
\* a number, which marshals to JSON that is no object
NumberSource == [kind |-> "number", m |-> <<>>]

\* a float64, the value encoding/json gives a number read into an any
FloatValue == [kind |-> "float", s |-> "7"]

\* json.Marshal followed by json.Unmarshal into a map[string]any, for one
\* field: pointers are followed, a nil pointer is null, numbers are float64
jsonValue(v) ==
    IF v.kind = "strptr" THEN StringValue(v.s)
    ELSE IF v.kind = "nilstrptr" THEN NilValue
    ELSE IF v.kind = "int" THEN FloatValue
    ELSE v

jsonMap(m) == [k \in DOMAIN m |-> jsonValue(m[k])]

\* mutant of mergeSource: a name that is in the result already keeps its value
mergeSource_First(arg, result) ==
    result @@ (IF arg.kind = "struct" THEN jsonMap(arg.m) ELSE arg.m)

\* the assignments result[k] = v of one source
mergeSource(arg, result) ==
    (IF arg.kind = "struct" THEN jsonMap(arg.m) ELSE arg.m) @@ result

\* mappedArgs: the merged mapping, the error and the panic
RECURSIVE mappedArgs(_, _)
mappedArgs(args, result) ==
    IF args = <<>> THEN [m |-> result, err |-> NoError, panic |-> NoPanic]
    ELSE IF Head(args).kind = "nil" THEN mappedArgs(Tail(args), result)
    ELSE IF Head(args).kind = "nilnamedptr"
    THEN [m |-> <<>>, err |-> NoError, panic |-> NilDereference(<<>>)]
    ELSE IF Head(args).kind = "badmap"
    THEN [m |-> <<>>, err |-> Errorf("invalid map - keys must be string", <<>>),
          panic |-> NoPanic]
    ELSE IF Head(args).kind = "number"
    THEN [m |-> <<>>,
          err |-> Errorf("json: cannot unmarshal number into Go value of type map[string]interface {}", <<>>),
          panic |-> NoPanic]
    ELSE mappedArgs(Tail(args), mergeSource(Head(args), result))

\* the writes of one value to the positions of an entry
RECURSIVE writeAll(_, _, _)
writeAll(o, positions, v) ==
    IF positions = <<>> THEN o
    ELSE writeAll([o EXCEPT ![Head(positions) + 1] = v], Tail(positions), v)

\* the loop of Args over n.args, visited in the given order
RECURSIVE argsLoop(_, _, _, _)
argsLoop(n, mapped, order, o) ==
    IF order = <<>> THEN [out |-> o, err |-> NoError, panic |-> NoPanic]
    ELSE LET name == Head(order)
             arg  == n.args[name]
         IN  IF name \in DOMAIN mapped
             THEN LET av == value(arg, mapped[name])
                  IN  IF av.panics
                      THEN [out |-> <<>>, err |-> NoError, panic |-> NilDereference(name)]
                      ELSE argsLoop(n, mapped, Tail(order), writeAll(o, arg.positions, av.v))
             ELSE IF ~arg.omissible
             THEN [out |-> <<>>, err |-> Errorf("named arg '%s' missing", name),
                   panic |-> NoPanic]
             ELSE IF arg.defValue # NoDefault
             THEN LET dv == defaultedValue(arg, name)
                  IN  IF dv.panics
                      THEN [out |-> <<>>, err |-> NoError, panic |-> NilDereference(name)]
                      ELSE argsLoop(n, mapped, Tail(order), writeAll(o, arg.positions, dv.v))
             ELSE argsLoop(n, mapped, Tail(order), o)

\* the orders in which a Go map with the keys S may be ranged over
Orders(S) ==
    { f \in [1..Cardinality(S) -> S] : \A i, j \in 1..Cardinality(S) : i # j => f[i] # f[j] }

\* namedTemplate.Args after mappedArgs has returned mp
argsMapped(n, mp, order) ==
    IF mp.panic.raised
    THEN [out |-> <<>>, err |-> NoError, panic |-> mp.panic, mapped |-> <<>>]
    ELSE IF mp.err # NoError
    THEN [out |-> <<>>, err |-> mp.err, panic |-> NoPanic, mapped |-> <<>>]
    ELSE [mapped |-> mp.m] @@
         argsLoop(n, mp.m, order, [i \in 1..n.argsCount |-> NilValue])

\* namedTemplate.Args for one visiting order of n.args
ArgsResult(n, args, order) == argsMapped(n, mappedArgs(args, <<>>), order)

----------------------------------------------------------------------------
(* Mutators: OmissibleArgs, DefaultValue, NullableStringArgs *)

\* mutant of OmissibleArgsResult: the names are not looked at
OmissibleArgsResult_All(n, names) ==
    [n EXCEPT !.args = [k \in DOMAIN @ |-> [@[k] EXCEPT !.omissible = TRUE]]]

\* namedTemplate.OmissibleArgs(names...)
OmissibleArgsResult(n, names) ==
    [n EXCEPT !.args = [k \in DOMAIN @ |->
        IF names = {} \/ k \in names THEN [@[k] EXCEPT !.omissible = TRUE] ELSE @[k]]]

\* mutant of DefaultValueResult: a name the template does not have gets an
\* entry of its own
DefaultValueResult_Add(n, name, dv) ==
    [n EXCEPT !.args = [k \in DOMAIN @ \cup {name} |->
        IF k = name
        THEN [(IF k \in DOMAIN @ THEN @[k] ELSE newNamedArg(n.argTag, <<>>, TRUE))
                 EXCEPT !.omissible = TRUE, !.defValue = dv]
        ELSE @[k]]]

\* namedTemplate.DefaultValue(name, v): dv is the provider installed, v itself
\* when v is a func(name string) any, a closure returning v otherwise
DefaultValueResult(n, name, dv) ==
    IF name \in DOMAIN n.args
    THEN [n EXCEPT !.args[name] = [@ EXCEPT !.omissible = TRUE, !.defValue = dv]]
    ELSE n

\* namedTemplate.NullableStringArgs(names...)
NullableStringArgsResult(n, names) ==
    [n EXCEPT !.args = [k \in DOMAIN @ |->
        IF k \in names THEN [@[k] EXCEPT !.nullableString = TRUE] ELSE @[k]]]

----------------------------------------------------------------------------
(* Inputs *)

Tok(name) == <<"{", "{">> \o name \o <<"}", "}">>

\* statements without tokens: single runes and the two shortest markers
ScanPieces == { <<":">>, <<":", "a">>, <<":", "b">>, <<"a">>, <<"b">>, <<"?">>, <<",">> }

\* statements with tokens
TokPieces == { <<":">>, <<"a">>, <<",">>,
               Tok(<<"t">>), Tok(<<"u">>), Tok(<<"n">>), Tok(<<"m">>) }

Statements(pieces, n) == { Flatten(p) : p \in SeqsUpTo(pieces, n) }

NewInput(statement, option, tokenOptions) ==
    [statement |-> statement, option |-> option, tokenOptions |-> tokenOptions]

NoInput == NewInput(<<>>, DefaultsOption, <<>>)

CompileInputs ==
    { NewInput(s, o, <<>>) : s \in Statements(ScanPieces, MaxScanLen), o \in Options }
    \cup
    { NewInput(s, o, t) : s \in Statements(TokPieces, MaxTokLen), o \in Options,
                          t \in TokenOptionLists }

----------------------------------------------------------------------------
(* Object identity of the entries: n.args maps a name to a *namedArg, and  *)
(* two templates may hold the same object                                  *)

\* the objects of the template held, and the objects a call allocates
HeldRef == "held"
NewRef == "new"

NoRefs == [tmpl |-> <<>>, derived |-> <<>>]

\* addNamedArg: every entry of a template built by buildArgs is a namedArg
\* allocated by that build
allocArgs(n, ref) == [name \in DOMAIN n.args |-> ref]

\* a clone that returns its receiver
cloneRef_Same(old, fresh) == old

\* namedArg.clone: the object returned is a new namedArg
cloneRef(old, fresh) == fresh

\* namedTemplate.copy: r.args[name] = arg.clone()
copyRefs(n, nrefs, fresh) == [name \in DOMAIN n.args |-> cloneRef(nrefs[name], fresh)]

\* the objects behind the entries of the template r that n.Clone returned
CloneRefs(n, nrefs, r, fresh) ==
    IF r = NoTemplate THEN <<>>
    ELSE IF r.usePositionalTags = n.usePositionalTags /\ r.argTag = n.argTag
    THEN copyRefs(n, nrefs, fresh)
    ELSE allocArgs(r, fresh)

\* template y after the entries of template x were written, x1 being x
\* after the write: an entry of y that is the same object as an entry of x
\* shows what was written
Through(x1, rx, y, ry) ==
    IF y = NoTemplate THEN y
    ELSE [y EXCEPT !.args = [name \in DOMAIN y.args |->
            IF \E other \in DOMAIN x1.args : rx[other] = ry[name]
            THEN x1.args[CHOOSE other \in DOMAIN x1.args : rx[other] = ry[name]]
            ELSE y.args[name]]]

----------------------------------------------------------------------------
(* State machine *)

\* no mutator and no Args call has been made
NoCall == <<>>

\* the arguments of a names... mutator, of DefaultValue and of Args
NamesCall(names) == [names |-> names]
DefaultCall(name, dv) == [name |-> name, v |-> dv]
ArgsCall(args) == [args |-> args]

\* the most Args invocations that run at the same time
MaxProcs == 2

\* an invocation that has not been started
IdleProc ==
    [pc |-> "idle", args |-> <<>>, mapped |-> <<>>, todo |-> {}, out |-> <<>>,
     err |-> NoError]

\* the passes of replaceTokens are counted up to this number
MaxPasses == 3

\* no NewNamedTemplate call is in progress
NoBuild == [pc |-> "idle", n |-> NoTemplate, first |-> TRUE, err |-> NoError, passes |-> 0]

\* neither GetArgNames nor GetArgsInfo has been called
NoInfo == [names |-> <<>>, args |-> <<>>]

Init ==
    /\ input = NoInput
    /\ tmpl = NoTemplate
    /\ err = NoError
    /\ derived = NoTemplate
    /\ lastArgs = <<>>
    /\ out = <<>>
    /\ panic = NoPanic
    /\ op = "init"
    /\ refs = NoRefs
    /\ call = NoCall
    /\ info = NoInfo
    /\ procs = [p \in 1..MaxProcs |-> IdleProc]
    /\ build = NoBuild

HasTemplate == tmpl # NoTemplate

\* NewNamedTemplate(statement, options...)
NewNamedTemplate(in) ==
    /\ op = "init"
    /\ \E r \in { NewNamedTemplateResult(in.statement, in.option, in.tokenOptions) } :
          /\ tmpl' = r.n
          /\ err' = r.err
          /\ refs' = [tmpl |-> allocArgs(r.n, HeldRef), derived |-> <<>>]
    /\ input' = in
    /\ op' = "NewNamedTemplate"
    /\ call' = NoCall
    /\ UNCHANGED <<info, procs, build>>
    /\ UNCHANGED <<derived, lastArgs, out, panic>>

CompileNext == op = "init" /\ \E in \in CompileInputs : NewNamedTemplate(in)

\* compilation of every bounded statement under every option
SpecCompile == Init /\ [][CompileNext]_vars

\* the call returned a template
Compiled == op = "NewNamedTemplate" /\ err = NoError

----------------------------------------------------------------------------
(* Binding a compiled template *)

\* statements of the templates that are bound
BindPieces == { <<":", "a">>, <<":", "b">>, <<"?">> }

BindInputs ==
    { NewInput(s, o, <<>>) : s \in Statements(BindPieces, MaxStmtLen), o \in Options }

\* the names given to Args and to the mutators
ArgNames == { <<"a">>, <<"b">> }

\* the values given to Args
BindValues == { StringValue("X"), StringValue(""), StringPtr("X"), StringPtr(""),
                NilStringPtr, IntValue, NilValue }

\* the map[string]any arguments of Args
Mappings == UNION { [D -> BindValues] : D \in SUBSET ArgNames }

\* a func(name string) any that is nil: the type assertion of DefaultValue
\* succeeds and the defValue assigned is nil
NilFunc == NoDefault

\* the second arguments of DefaultValue
DefaultInputs ==
    { ConstProvider(StringValue("")), ConstProvider(NilStringPtr), FuncProvider("byName"),
      NilFunc }

\* the names... arguments of OmissibleArgs and NullableStringArgs
NameLists == SUBSET ArgNames

\* the template has been bound; policy is set up before the template is
\* bound, and a behaviour ends with the bind
Bound == op = "Args"

\* n.OmissibleArgs(names...) on the template held
OmissibleArgs(names) ==
    /\ HasTemplate /\ ~Bound
    /\ \E n1 \in { OmissibleArgsResult(tmpl, names) } :
          /\ tmpl' = n1
          /\ derived' = Through(n1, refs.tmpl, derived, refs.derived)
    /\ op' = "OmissibleArgs"
    /\ call' = NamesCall(names)
    /\ UNCHANGED <<info, procs, build>>
    /\ err' = NoError /\ lastArgs' = <<>> /\ out' = <<>> /\ panic' = NoPanic
    /\ UNCHANGED <<input, refs>>

\* n.DefaultValue(name, v) on the template held
DefaultValue(name, dv) ==
    /\ HasTemplate /\ ~Bound
    /\ \E n1 \in { DefaultValueResult(tmpl, name, dv) } :
          /\ tmpl' = n1
          /\ derived' = Through(n1, refs.tmpl, derived, refs.derived)
    /\ op' = "DefaultValue"
    /\ call' = DefaultCall(name, dv)
    /\ UNCHANGED <<info, procs, build>>
    /\ err' = NoError /\ lastArgs' = <<>> /\ out' = <<>> /\ panic' = NoPanic
    /\ UNCHANGED <<input, refs>>

\* n.NullableStringArgs(names...) on the template held
NullableStringArgs(names) ==
    /\ HasTemplate /\ ~Bound
    /\ \E n1 \in { NullableStringArgsResult(tmpl, names) } :
          /\ tmpl' = n1
          /\ derived' = Through(n1, refs.tmpl, derived, refs.derived)
    /\ op' = "NullableStringArgs"
    /\ call' = NamesCall(names)
    /\ UNCHANGED <<info, procs, build>>
    /\ err' = NoError /\ lastArgs' = <<>> /\ out' = <<>> /\ panic' = NoPanic
    /\ UNCHANGED <<input, refs>>

\* n.Args(args...) on the template held; the range over n.args visits the
\* entries in any order
Args(args) ==
    /\ HasTemplate /\ ~Bound
    /\ \E order \in Orders(DOMAIN tmpl.args) :
          LET r == ArgsResult(tmpl, args, order)
          IN  /\ lastArgs' = r.mapped
              /\ out' = r.out
              /\ err' = r.err
              /\ panic' = r.panic
    /\ op' = "Args"
    /\ call' = ArgsCall(args)
    /\ UNCHANGED <<info, procs, build>>
    /\ UNCHANGED <<input, tmpl, derived, refs>>

BindNext ==
    \/ op = "init" /\ \E in \in BindInputs : NewNamedTemplate(in)
    \/ HasTemplate /\ ~Bound /\ \E names \in NameLists : OmissibleArgs(names)
    \/ HasTemplate /\ ~Bound /\ \E name \in ArgNames, dv \in DefaultInputs : DefaultValue(name, dv)
    \/ HasTemplate /\ ~Bound /\ \E names \in NameLists : NullableStringArgs(names)
    \/ HasTemplate /\ ~Bound /\ \E m \in Mappings : Args(<<MapSource(m)>>)

\* a template is compiled, its policy is changed and it is bound, in any order
SpecBind == Init /\ [][BindNext]_vars

----------------------------------------------------------------------------
(* Binding from several sources *)

\* the most sources given to one Args call
MaxSources == 3

\* the template bound: ":a:b" under each option
MergeInputs == { NewInput(<<":", "a", ":", "b">>, o, <<>>) : o \in Options }

\* the maps given as sources
MergeMaps ==
    { <<>>, <<"a">> :> StringValue("X"), <<"a">> :> StringValue("Y"),
      <<"b">> :> StringValue("X"),
      (<<"a">> :> StringValue("X")) @@ (<<"b">> :> StringValue("Y")) }

\* the sources given to Args
Sources ==
    { NilSource, NilNamedArgPointer, NonStringKeyedMap, NumberSource }
    \cup { MapSource(m) : m \in MergeMaps }
    \cup { NamedArgSource(<<"a">>, StringValue("Y")), NamedArgSource(<<"b">>, StringValue("X")) }
    \cup { StringKeyedMap(<<"a">> :> StringValue("X")), StringKeyedMap(<<"b">> :> StringValue("Y")) }
    \cup { StructSource(<<"a">> :> IntValue) }

MergeNext ==
    \/ op = "init" /\ \E in \in MergeInputs : NewNamedTemplate(in)
    \/ op = "NewNamedTemplate" /\ OmissibleArgs({})
    \/ HasTemplate /\ ~Bound /\ \E args \in SeqsUpTo(Sources, MaxSources) : Args(args)

\* a template is compiled, made omissible as a whole or not, and bound from a
\* sequence of sources
SpecMerge == Init /\ [][MergeNext]_vars

----------------------------------------------------------------------------
(* Binding again after a bind *)

\* the template has been bound at least once
BoundBefore == op \in { "Args", "ArgsAgain" }

\* n.Args(args...) on a template that has been bound before
ArgsAgain(args) ==
    /\ HasTemplate /\ BoundBefore
    /\ \E order \in Orders(DOMAIN tmpl.args) :
          \E r \in { ArgsResult(tmpl, args, order) } :
              /\ lastArgs' = r.mapped
              /\ out' = r.out
              /\ err' = r.err
              /\ panic' = r.panic
    /\ op' = "ArgsAgain"
    /\ call' = ArgsCall(args)
    /\ UNCHANGED <<info, procs, build>>
    /\ UNCHANGED <<input, tmpl, derived, refs>>

\* the templates bound: ":a:b" and ":a?:b:a" under each option
RetryInputs ==
    { NewInput(s, o, <<>>) :
        s \in { <<":", "a", ":", "b">>, <<":", "a", "?", ":", "b", ":", "a">> },
        o \in Options }

\* the values and the sources given to Args
RetryValues == { StringValue("X"), StringValue(""), NilStringPtr }
RetrySources ==
    { MapSource(m) : m \in UNION { [D -> RetryValues] : D \in SUBSET ArgNames } }
    \cup { NonStringKeyedMap }

RetryNext ==
    \/ op = "init" /\ \E in \in RetryInputs : NewNamedTemplate(in)
    \/ op = "NewNamedTemplate" /\ NullableStringArgs({<<"a">>})
    \/ op = "NullableStringArgs" /\ DefaultValue(<<"b">>, ConstProvider(StringValue("")))
    \/ HasTemplate /\ ~Bound /\ \E src \in RetrySources : Args(<<src>>)
    \/ BoundBefore /\ \E src \in RetrySources : ArgsAgain(<<src>>)

\* a template is compiled, its policy is set up, and it is bound again and again
SpecRetry == Init /\ [][RetryNext]_vars

----------------------------------------------------------------------------
(* Introspection: GetArgNames and GetArgsInfo *)

\* namedArg.toInfo: the fields are copied; Positions is the slice a.positions
\* itself, so that it has the array of the entry (sameArray)
toInfo(a) ==
    [Tag |-> a.tag, Positions |-> a.positions, Omissible |-> a.omissible,
     DefaultValue |-> a.defValue, NullableString |-> a.nullableString,
     sameArray |-> TRUE]

\* namedTemplate.GetArgNames
GetArgNamesResult(n) == [name \in DOMAIN n.args |-> n.args[name].omissible]

\* namedTemplate.GetArgsInfo
GetArgsInfoResult(n) == [name \in DOMAIN n.args |-> toInfo(n.args[name])]

\* what no call has changed
Asked == UNCHANGED <<input, derived, lastArgs, out, err, panic, refs, call, procs, build>>

\* names := n.GetArgNames()
GetArgNames ==
    /\ HasTemplate /\ ~Bound
    /\ info' = [info EXCEPT !.names = GetArgNamesResult(tmpl)]
    /\ op' = "GetArgNames"
    /\ UNCHANGED tmpl /\ Asked

\* infos := n.GetArgsInfo()
GetArgsInfo ==
    /\ HasTemplate /\ ~Bound
    /\ info' = [info EXCEPT !.args = GetArgsInfoResult(tmpl)]
    /\ op' = "GetArgsInfo"
    /\ UNCHANGED tmpl /\ Asked

\* names[name] = b by the caller
SetName(name, b) ==
    /\ name \in DOMAIN info.names
    /\ info' = [info EXCEPT !.names[name] = b]
    /\ op' = "names[name] = b"
    /\ UNCHANGED tmpl /\ Asked

\* ai := infos[name]; ai.Omissible = b; infos[name] = ai by the caller
SetInfoOmissible(name, b) ==
    /\ name \in DOMAIN info.args
    /\ info' = [info EXCEPT !.args[name].Omissible = b]
    /\ op' = "infos[name].Omissible = b"
    /\ UNCHANGED tmpl /\ Asked

\* infos[name].Positions[j] = v by the caller, j and v in range: the write
\* goes to the array of the slice, which the entry of the template reads when
\* it is the same array
SetInfoPosition(name, j, v) ==
    /\ name \in DOMAIN info.args
    /\ j \in 1..Len(info.args[name].Positions)
    /\ info' = [info EXCEPT !.args[name].Positions[j] = v]
    /\ tmpl' = IF info.args[name].sameArray /\ name \in DOMAIN tmpl.args
               THEN [tmpl EXCEPT !.args[name].positions[j] = v]
               ELSE tmpl
    /\ op' = "infos[name].Positions[j] = v"
    /\ Asked

\* the templates asked: ":a:b" and ":a:b:a" under each option
SnapshotInputs ==
    { NewInput(s, o, <<>>) :
        s \in { <<":", "a", ":", "b">>, <<":", "a", ":", "b", ":", "a">> },
        o \in Options }

\* the maps bound afterwards
SnapshotMaps ==
    { (<<"a">> :> StringValue("X")) @@ (<<"b">> :> IntValue), <<"a">> :> StringValue("X") }

SnapshotNext ==
    \/ op = "init" /\ \E in \in SnapshotInputs : NewNamedTemplate(in)
    \/ op = "NewNamedTemplate" /\ OmissibleArgs({<<"b">>})
    \/ GetArgNames
    \/ GetArgsInfo
    \/ ~Bound /\ \E name \in ArgNames, b \in BOOLEAN : SetName(name, b)
    \/ ~Bound /\ \E name \in ArgNames, b \in BOOLEAN : SetInfoOmissible(name, b)
    \/ ~Bound /\ \E name \in ArgNames, j \in 1..2, v \in 0..(tmpl.argsCount - 1) :
          SetInfoPosition(name, j, v)
    \/ HasTemplate /\ ~Bound /\ \E m \in SnapshotMaps : Args(<<MapSource(m)>>)

\* a template is compiled, asked for its names and infos, the returned data is
\* changed, and the template is asked again or bound
SpecSnapshot == Init /\ [][SnapshotNext]_vars

----------------------------------------------------------------------------
(* Concurrent Args invocations on one template *)

\* what the steps of an invocation leave alone: the template is only read
Running ==
    /\ op' = "go"
    /\ UNCHANGED <<input, tmpl, derived, lastArgs, out, err, refs, call, info, build>>

\* the invocation p after mappedArgs has returned mp: out is made, and the
\* range over n.args has every entry still to visit
started(n, args, mp) ==
    IF mp.panic.raised
    THEN [IdleProc EXCEPT !.pc = "panicked", !.args = args]
    ELSE IF mp.err # NoError
    THEN [IdleProc EXCEPT !.pc = "done", !.args = args, !.err = mp.err]
    ELSE [pc |-> "loop", args |-> args, mapped |-> mp.m, todo |-> DOMAIN n.args,
          out |-> [i \in 1..n.argsCount |-> NilValue], err |-> NoError]

\* go n.Args(args...): the call up to the loop over n.args; a panic is not
\* recovered and ends the program
Go(p, args) ==
    /\ HasTemplate /\ ~panic.raised
    /\ procs[p].pc = "idle"
    /\ \E mp \in { mappedArgs(args, <<>>) } :
          /\ procs' = [procs EXCEPT ![p] = started(tmpl, args, mp)]
          /\ panic' = mp.panic
    /\ Running

\* the invocation pr after the iteration for name has given r
visited(pr, name, r) ==
    IF r.panic.raised THEN [pr EXCEPT !.pc = "panicked", !.out = <<>>]
    ELSE IF r.err # NoError THEN [pr EXCEPT !.pc = "done", !.out = <<>>, !.err = r.err]
    ELSE [pr EXCEPT !.out = r.out, !.todo = @ \ {name}]

\* one iteration of the loop over n.args in the invocation p, for any entry
\* not yet visited
Visit(p, name) ==
    /\ ~panic.raised
    /\ procs[p].pc = "loop" /\ name \in procs[p].todo
    /\ \E r \in { argsLoop(tmpl, procs[p].mapped, <<name>>, procs[p].out) } :
          /\ procs' = [procs EXCEPT ![p] = visited(procs[p], name, r)]
          /\ panic' = r.panic
    /\ Running

\* return out, nil in the invocation p
Return(p) ==
    /\ ~panic.raised
    /\ procs[p].pc = "loop" /\ procs[p].todo = {}
    /\ procs' = [procs EXCEPT ![p].pc = "done"]
    /\ UNCHANGED panic
    /\ Running

\* the templates bound concurrently: ":a:b" and ":a?:b" under each option
ConcurrentInputs ==
    { NewInput(s, o, <<>>) :
        s \in { <<":", "a", ":", "b">>, <<":", "a", "?", ":", "b">> }, o \in Options }

\* the sources of the invocations
ConcurrentSources ==
    { MapSource((<<"a">> :> StringValue("X")) @@ (<<"b">> :> StringValue("X"))),
      MapSource((<<"a">> :> NilStringPtr) @@ (<<"b">> :> StringValue("X"))),
      MapSource(<<"a">> :> StringValue("")),
      MapSource(<<>>),
      NonStringKeyedMap }

ConcurrentNext ==
    \/ op = "init" /\ \E in \in ConcurrentInputs : NewNamedTemplate(in)
    \/ op = "NewNamedTemplate" /\ NullableStringArgs({<<"a">>})
    \/ \E p \in 1..MaxProcs, src \in ConcurrentSources : Go(p, <<src>>)
    \/ \E p \in 1..MaxProcs, name \in ArgNames : Visit(p, name)
    \/ \E p \in 1..MaxProcs : Return(p)

\* a template is compiled and set up, and then bound by invocations that
\* interleave at every iteration; no mutator runs once one has started
SpecConcurrent == Init /\ [][ConcurrentNext]_vars

----------------------------------------------------------------------------
(* NewNamedTemplate followed pass by pass *)

\* a capability whose replacement texts refer to themselves and to each other
CapCycle == (<<"t">> :> Tok(<<"t">>)) @@ (<<"n">> :> Tok(<<"m">>))
            @@ (<<"m">> :> Tok(<<"n">>))

\* a replaceTokens that hands its own first on to the repeated pass
nextFirst_Same(first) == first

\* the argument of the repeated pass: n.replaceTokens(false)
nextFirst(first) == FALSE

\* what the steps of the call leave alone
Building ==
    UNCHANGED <<derived, lastArgs, out, panic, call, info, procs>>

\* NewNamedTemplate up to the call of buildArgs
BeginCompile(in) ==
    /\ op = "init"
    /\ build' = [pc |-> "replaceTokens",
                 n |-> newNamedTemplate(in.statement, in.option.usePositionalTags,
                                        in.option.argTag, in.tokenOptions),
                 first |-> TRUE, err |-> NoError, passes |-> 0]
    /\ input' = in
    /\ op' = "compiling"
    /\ UNCHANGED <<tmpl, err, refs>> /\ Building

\* the call in progress b after one pass of replaceTokens has given x
passed(b, x) ==
    IF Len(x.errs) = 1
    THEN [b EXCEPT !.pc = "return", !.n.originalStatement = x.text,
                   !.err = Errorf("unknown token: %s", x.errs[1])]
    ELSE IF Len(x.errs) > 0
    THEN [b EXCEPT !.pc = "return", !.n.originalStatement = x.text,
                   !.err = Errorf("unknown tokens: %s", Join(x.errs, <<",", " ">>))]
    ELSE IF b.first /\ Contains2(x.text, <<"{", "{">>) /\ Contains2(x.text, <<"}", "}">>)
    THEN [b EXCEPT !.n.originalStatement = x.text, !.first = nextFirst(b.first)]
    ELSE [b EXCEPT !.pc = "scan", !.n.originalStatement = x.text]

\* one pass of replaceTokens
TokenPass ==
    /\ build.pc = "replaceTokens"
    /\ \E x \in { ReplaceAllTokens(build.n.originalStatement, 0, build.n.tokenOptions,
                                   <<>>, <<>>) } :
          build' = [passed(build, x) EXCEPT
                       !.passes = IF build.passes < MaxPasses THEN build.passes + 1
                                  ELSE MaxPasses]
    /\ UNCHANGED <<input, tmpl, err, refs, op>> /\ Building

\* the call in progress b after the scan of buildArgs has given r
scanned(b, r) == [b EXCEPT !.pc = "return", !.n = r.n, !.err = r.err]

\* buildArgs after replaceTokens has returned nil
MarkerScan ==
    /\ build.pc = "scan"
    /\ \E r \in { buildArgsScan([n |-> build.n, err |-> NoError]) } :
          build' = scanned(build, r)
    /\ UNCHANGED <<input, tmpl, err, refs, op>> /\ Building

\* NewNamedTemplate returns
EndCompile ==
    /\ build.pc = "return"
    /\ \E r \in { newResult([n |-> build.n, err |-> build.err]) } :
          /\ tmpl' = r.n
          /\ err' = r.err
          /\ refs' = [tmpl |-> allocArgs(r.n, HeldRef), derived |-> <<>>]
    /\ build' = [build EXCEPT !.pc = "idle"]
    /\ op' = "NewNamedTemplate"
    /\ UNCHANGED input /\ Building

\* statements with tokens of cyclic and of nested definitions
PassPieces == { Tok(<<"t">>), Tok(<<"n">>), Tok(<<"m">>), Tok(<<"u">>), <<":", "a">>, <<":">> }

PassInputs ==
    { NewInput(s, o, t) : s \in Statements(PassPieces, MaxStmtLen), o \in Options,
                          t \in { <<CapCycle>>, <<CapA>>, <<CapB, CapCycle>> } }

PassNext ==
    \/ \E in \in PassInputs : BeginCompile(in)
    \/ TokenPass
    \/ MarkerScan
    \/ EndCompile

\* a compile that is started runs on, pass after pass, until it returns
SpecPasses == Init /\ [][PassNext]_vars /\ WF_vars(PassNext)

----------------------------------------------------------------------------
(* Derivation: Clone and Append *)

\* namedArg.clone
clone(a) ==
    [tag |-> a.tag, positions |-> a.positions, omissible |-> a.omissible,
     defValue |-> a.defValue, nullableString |-> a.nullableString]

\* a copyOptionsTo that also hands over the positions
copyOptionsTo_Positions(a, r) ==
    [r EXCEPT !.positions = a.positions, !.omissible = a.omissible,
              !.defValue = a.defValue, !.nullableString = a.nullableString]

\* namedArg.copyOptionsTo(r)
copyOptionsTo(a, r) ==
    [r EXCEPT !.omissible = a.omissible, !.defValue = a.defValue,
              !.nullableString = a.nullableString]

\* namedTemplate.copy
copy(n) ==
    [newNamedTemplate(n.originalStatement, n.usePositionalTags, n.argTag, n.tokenOptions)
        EXCEPT !.statement = n.statement,
               !.argsCount = n.argsCount,
               !.args = [name \in DOMAIN n.args |-> clone(n.args[name])]]

\* a nil Option
NilOption == [usePositionalTags |-> FALSE, argTag |-> <<"n", "i", "l">>]

\* the end of Clone between dialects: r is the template rebuilt from the
\* original statement.  Each entry of n copies its options to the entry of the
\* same name in r; where r has no such entry copyOptionsTo is given nil and
\* panics (the range over n.args meets such names in any order).
cloneOptions(n, r) ==
    IF DOMAIN n.args \subseteq DOMAIN r.args
    THEN { [n |-> [r EXCEPT !.args = [name \in DOMAIN r.args |->
                      IF name \in DOMAIN n.args
                      THEN copyOptionsTo(n.args[name], r.args[name])
                      ELSE r.args[name]]],
            panic |-> NoPanic] }
    ELSE { [n |-> NoTemplate, panic |-> NilDereference(name)] :
               name \in (DOMAIN n.args) \ (DOMAIN r.args) }

\* Clone once the nil option has been replaced by DefaultsOption
cloneWith(n, opt) ==
    IF opt.usePositionalTags = n.usePositionalTags /\ opt.argTag = n.argTag
    THEN { [n |-> copy(n), panic |-> NoPanic] }
    ELSE cloneOptions(n, buildArgs(newNamedTemplate(n.originalStatement, opt.usePositionalTags,
                                                    opt.argTag, n.tokenOptions)).n)

\* namedTemplate.Clone(option): the outcomes of the call, each the template
\* returned or the panic raised; the error of the rebuild is discarded
CloneResults(n, option) ==
    cloneWith(n, IF option = NilOption THEN DefaultsOption ELSE option)

\* the end of Append: b is what buildArgs returned for the joined statement.
\* Each entry of n gives its omissible flag and default to the entry of the
\* same name in the result.
appendOptions(n, b) ==
    IF b.err # NoError THEN [n |-> NoTemplate, err |-> b.err]
    ELSE [n |-> [b.n EXCEPT !.args = [name \in DOMAIN b.n.args |->
                    IF name \in DOMAIN n.args
                    THEN [b.n.args[name] EXCEPT !.omissible = n.args[name].omissible,
                                                !.defValue = n.args[name].defValue]
                    ELSE b.n.args[name]]],
          err |-> NoError]

\* an Append that joins the portion to the rendered statement
AppendResult_Rendered(n, portion) ==
    appendOptions(n, buildArgs(newNamedTemplate(n.statement \o portion,
                                                n.usePositionalTags, n.argTag, n.tokenOptions)))

\* namedTemplate.Append(portion): the template returned (NoTemplate on error)
\* and the error
AppendResult(n, portion) ==
    appendOptions(n, buildArgs(newNamedTemplate(n.originalStatement \o portion,
                                                n.usePositionalTags, n.argTag, n.tokenOptions)))

\* statements of the templates that are derived from
DerivePieces == { <<":", "a">>, <<":", "b">>, <<"?">>, Tok(<<"m">>) }

DeriveInputs ==
    { NewInput(s, o, <<CapA>>) : s \in Statements(DerivePieces, MaxStmtLen), o \in Options }
    \cup { NewInput(s, o, <<CapB, CapA>>) :
               s \in { x \in Statements(DerivePieces, MaxStmtLen) : \E i \in 1..Len(x) : x[i] = "{" },
               o \in Options }

\* the portions appended
Portions == { <<":", "a">>, <<":", "b">>, <<"?">>, <<":">>, <<"b">> }

\* longest joined statement (in runes) an Append builds
MaxRunes == MaxStmtLen + 4

CloneOptions == Options \cup { NilOption }

\* n.Clone(option) on the template held
Clone(option) ==
    /\ HasTemplate
    /\ \E r \in CloneResults(tmpl, option) :
          /\ derived' = r.n
          /\ panic' = r.panic
          /\ refs' = [refs EXCEPT !.derived = CloneRefs(tmpl, refs.tmpl, r.n, NewRef)]
    /\ op' = "Clone"
    /\ call' = NoCall
    /\ UNCHANGED <<info, procs, build>>
    /\ err' = NoError /\ lastArgs' = <<>> /\ out' = <<>>
    /\ UNCHANGED <<input, tmpl>>

\* n.Append(portion) on the template held
AppendStatement(portion) ==
    /\ HasTemplate
    /\ Len(tmpl.originalStatement) + Len(portion) <= MaxRunes
    /\ \E r \in { AppendResult(tmpl, portion) } :
          /\ derived' = r.n
          /\ err' = r.err
          /\ refs' = [refs EXCEPT !.derived = allocArgs(r.n, NewRef)]
    /\ input' = NewInput(portion,
                         [usePositionalTags |-> tmpl.usePositionalTags, argTag |-> tmpl.argTag],
                         tmpl.tokenOptions)
    /\ op' = "Append"
    /\ call' = NoCall
    /\ UNCHANGED <<info, procs, build>>
    /\ panic' = NoPanic /\ lastArgs' = <<>> /\ out' = <<>>
    /\ UNCHANGED tmpl

\* the caller goes on with the derived template: nt = nt.Clone(option);
\* the objects of the template given up are out of reach
Adopt ==
    /\ derived # NoTemplate
    /\ tmpl' = derived
    /\ derived' = NoTemplate
    /\ refs' = [tmpl |-> allocArgs(derived, HeldRef), derived |-> <<>>]
    /\ input' = NoInput
    /\ op' = "Adopt"
    /\ call' = NoCall
    /\ UNCHANGED <<info, procs, build>>
    /\ err' = NoError /\ panic' = NoPanic /\ lastArgs' = <<>> /\ out' = <<>>

\* One lineage of templates: the policy of the template held is changed
\* while no derived template is pending, and the caller goes on with a
\* derived template by adopting it.
DeriveNext ==
    \/ op = "init" /\ \E in \in DeriveInputs : NewNamedTemplate(in)
    \/ derived = NoTemplate /\ OmissibleArgs({<<"a">>})
    \/ derived = NoTemplate /\ DefaultValue(<<"a">>, FuncProvider("byName"))
    \/ derived = NoTemplate /\ NullableStringArgs({<<"a">>})
    \/ \E option \in CloneOptions : Clone(option)
    \/ \E portion \in Portions : AppendStatement(portion)
    \/ Adopt

\* a template is compiled, its policy is changed, and templates are derived
\* from it and from the derived ones
SpecDerive == Init /\ [][DeriveNext]_vars

----------------------------------------------------------------------------
(* The source and the derived template held side by side *)

\* r.OmissibleArgs(names...) on the derived template
OmissibleArgsDerived(names) ==
    /\ derived # NoTemplate
    /\ \E r1 \in { OmissibleArgsResult(derived, names) } :
          /\ derived' = r1
          /\ tmpl' = Through(r1, refs.derived, tmpl, refs.tmpl)
    /\ op' = "Derived.OmissibleArgs"
    /\ call' = NamesCall(names)
    /\ UNCHANGED <<info, procs, build>>
    /\ err' = NoError /\ lastArgs' = <<>> /\ out' = <<>> /\ panic' = NoPanic
    /\ UNCHANGED <<input, refs>>

\* r.DefaultValue(name, v) on the derived template
DefaultValueDerived(name, dv) ==
    /\ derived # NoTemplate
    /\ \E r1 \in { DefaultValueResult(derived, name, dv) } :
          /\ derived' = r1
          /\ tmpl' = Through(r1, refs.derived, tmpl, refs.tmpl)
    /\ op' = "Derived.DefaultValue"
    /\ call' = DefaultCall(name, dv)
    /\ UNCHANGED <<info, procs, build>>
    /\ err' = NoError /\ lastArgs' = <<>> /\ out' = <<>> /\ panic' = NoPanic
    /\ UNCHANGED <<input, refs>>

\* r.NullableStringArgs(names...) on the derived template
NullableStringArgsDerived(names) ==
    /\ derived # NoTemplate
    /\ \E r1 \in { NullableStringArgsResult(derived, names) } :
          /\ derived' = r1
          /\ tmpl' = Through(r1, refs.derived, tmpl, refs.tmpl)
    /\ op' = "Derived.NullableStringArgs"
    /\ call' = NamesCall(names)
    /\ UNCHANGED <<info, procs, build>>
    /\ err' = NoError /\ lastArgs' = <<>> /\ out' = <<>> /\ panic' = NoPanic
    /\ UNCHANGED <<input, refs>>

\* statements of the templates held side by side with a derived one
PairInputs ==
    { NewInput(s, o, <<>>) : s \in Statements(BindPieces, MaxStmtLen), o \in Options }

PairNext ==
    \/ op = "init" /\ \E in \in PairInputs : NewNamedTemplate(in)
    \/ OmissibleArgs({<<"a">>})
    \/ DefaultValue(<<"a">>, FuncProvider("byName"))
    \/ NullableStringArgs({<<"a">>})
    \/ \E option \in CloneOptions : Clone(option)
    \/ \E portion \in Portions : AppendStatement(portion)
    \/ OmissibleArgsDerived({<<"b">>})
    \/ DefaultValueDerived(<<"a">>, ConstProvider(StringValue("")))
    \/ NullableStringArgsDerived({<<"a">>})

\* a template is compiled; templates are derived from it, and the policy of
\* the source and of the derived template is changed, in any order
SpecPair == Init /\ [][PairNext]_vars

----------------------------------------------------------------------------
(* Reference reading of a statement, by colon runs.                        *)
(* Used by the properties only: what the documentation says a statement    *)
(* means, computed without the scan of buildArgs.                          *)

Lit(ch) == [kind |-> "lit", ch |-> ch, name |-> <<>>, omissible |-> FALSE, pos |-> 0]
Marker(name, omissible, pos) ==
    [kind |-> "marker", ch |-> "", name |-> name, omissible |-> omissible, pos |-> pos]
Bad(pos) == [kind |-> "bad", ch |-> "", name |-> <<>>, omissible |-> FALSE, pos |-> pos]

\* length of the maximal run of colons that starts at 0-based index i
ColonRunLen(text, i) ==
    CHOOSE L \in 0..(Len(text) - i) :
        /\ \A k \in i..(i + L - 1) : At(text, k) = ":"
        /\ (i + L = Len(text) \/ At(text, i + L) # ":")

\* end of the maximal run of name characters that starts at 0-based index i
NameRunEnd(text, i) ==
    CHOOSE e \in i..Len(text) :
        /\ \A k \in i..(e - 1) : At(text, k) \in NameRunes
        /\ (e = Len(text) \/ At(text, e) \notin NameRunes)

\* the items of text from 0-based index i on: literal characters, markers,
\* and (last) the first colon that starts no marker
RECURSIVE RefParse(_, _)
RefParse(text, i) ==
    IF i >= Len(text) THEN <<>>
    ELSE IF At(text, i) # ":" THEN <<Lit(At(text, i))>> \o RefParse(text, i + 1)
    ELSE LET L    == ColonRunLen(text, i)
             lits == [k \in 1..(L \div 2) |-> Lit(":")]
             c    == i + L - 1
         IN  IF L % 2 = 0 THEN lits \o RefParse(text, i + L)
             ELSE LET e == NameRunEnd(text, c + 1)
                  IN  IF e = c + 1 THEN lits \o <<Bad(c)>>
                      ELSE LET om == e < Len(text) /\ At(text, e) = "?"
                           IN  lits \o <<Marker(Slice(text, c + 1, e), om, c)>>
                                    \o RefParse(text, IF om THEN e + 1 ELSE e)

RefItems(text) == RefParse(text, 0)

IsMarker(item) == item.kind = "marker"
IsBad(item) == item.kind = "bad"

\* the marker occurrences of text, left to right
Occurrences(text) == SelectSeq(RefItems(text), IsMarker)

\* the names that occur in text
OccNames(text) == { Occurrences(text)[k].name : k \in 1..Len(Occurrences(text)) }

\* 1-based index of the first occurrence of name
FirstOcc(occ, name) ==
    CHOOSE k \in 1..Len(occ) :
        occ[k].name = name /\ \A j \in 1..(k - 1) : occ[j].name # name

\* 1-based rank of name among the distinct names, in order of first appearance
Rank(occ, name) ==
    Cardinality({ FirstOcc(occ, occ[j].name) : j \in 1..FirstOcc(occ, name) })

\* the items rendered with tags[name] in place of each marker
Render(items, tags) ==
    Flatten([k \in 1..Len(items) |->
                IF items[k].kind = "lit" THEN <<items[k].ch>>
                ELSE IF items[k].kind = "marker" THEN tags[items[k].name]
                ELSE <<>>])

\* number of occurrences of rune ch in s
Count(s, ch) == Cardinality({ k \in 1..Len(s) : s[k] = ch })

RECURSIVE SumLens(_, _)
SumLens(args, names) ==
    IF names = {} THEN 0
    ELSE LET x == CHOOSE y \in names : TRUE
         IN  Len(args[x].positions) + SumLens(args, names \ {x})

----------------------------------------------------------------------------
(* Properties of compilation *)

Names == DOMAIN tmpl.args

\* C4: under a non-numbered dialect every :name occurrence (escapes excluded)
\* emits exactly the tag prefix and allocates one new position: ArgsCount is
\* the number of occurrences and the sum of the entries' position counts, and
\* the k-th occurrence (0-based) owns position k.
C4_NonNumberedOccurrencePositions ==
    (HasTemplate /\ ~tmpl.usePositionalTags) =>
        LET text == tmpl.originalStatement
            occ  == Occurrences(text)
        IN  /\ Names = OccNames(text)
            /\ tmpl.argsCount = Len(occ)
            /\ tmpl.argsCount = SumLens(tmpl.args, Names)
            /\ \A k \in 1..Len(occ) :
                  \E j \in 1..Len(tmpl.args[occ[k].name].positions) :
                      tmpl.args[occ[k].name].positions[j] = k - 1
            /\ \A name \in Names : tmpl.args[name].tag = tmpl.argTag
            /\ tmpl.statement = Render(RefItems(text), [name \in Names |-> tmpl.argTag])

\* a non-numbered template in which a name repeats and an escape occurs
C4_Witness ==
    /\ HasTemplate /\ ~tmpl.usePositionalTags
    /\ \E name \in Names : Len(tmpl.args[name].positions) >= 2
    /\ Count(tmpl.originalStatement, ":") > tmpl.argsCount

\* C5: under a numbered dialect the k-th distinct name (1-based, by first
\* appearance) has the tag tagPrefix k and owns exactly position k-1, every
\* occurrence of the name renders that same tag, repeats allocate nothing,
\* and ArgsCount is the number of distinct names.
C5_NumberedDistinctNames ==
    (HasTemplate /\ tmpl.usePositionalTags) =>
        LET text == tmpl.originalStatement
            occ  == Occurrences(text)
        IN  /\ Names = OccNames(text)
            /\ tmpl.argsCount = Cardinality(OccNames(text))
            /\ \A name \in Names :
                  /\ tmpl.args[name].tag = tmpl.argTag \o Itoa(Rank(occ, name))
                  /\ tmpl.args[name].positions = <<Rank(occ, name) - 1>>
            /\ tmpl.statement =
                  Render(RefItems(text),
                         [name \in Names |-> tmpl.argTag \o Itoa(Rank(occ, name))])

\* a numbered template with two names, the first of which repeats after the second
C5_Witness ==
    /\ HasTemplate /\ tmpl.usePositionalTags
    /\ tmpl.argsCount = 2
    /\ LET occ == Occurrences(tmpl.originalStatement)
       IN  Len(occ) = 3 /\ occ[1].name = occ[3].name /\ occ[1].name # occ[2].name

\* the call returned a template (nothing else has been done to it yet)
JustCompiled == op = "NewNamedTemplate" /\ HasTemplate

\* C7: a double colon never starts a marker: each '::' pair renders as one
\* literal colon and contributes no name and no position; 2n colons render
\* n colons, 2n+1 colons and a name render n colons and one marker.  A
\* statement whose only colons are such pairs or markers compiles.
C7_DoubleColonEscape ==
    /\ HasTemplate =>
          LET text  == tmpl.originalStatement
              items == RefItems(text)
              occ   == Occurrences(text)
          IN  /\ Names = OccNames(text)
              /\ tmpl.argsCount = IF tmpl.usePositionalTags
                                  THEN Cardinality(OccNames(text)) ELSE Len(occ)
              /\ tmpl.statement = Render(items, [name \in Names |-> tmpl.args[name].tag])
              /\ Count(tmpl.statement, ":") =
                    Cardinality({ k \in 1..Len(items) :
                                    items[k].kind = "lit" /\ items[k].ch = ":" })
    /\ (/\ op = "NewNamedTemplate"
        /\ input.tokenOptions = <<>>
        /\ Count(input.statement, "{") = 0
        /\ \A k \in 1..Len(RefItems(input.statement)) : ~IsBad(RefItems(input.statement)[k]))
          => (err = NoError /\ HasTemplate)

\* three colons and a name: one literal colon and one marker
C7_Witness ==
    /\ HasTemplate
    /\ Count(tmpl.originalStatement, ":") = 3
    /\ Count(tmpl.statement, ":") = 1
    /\ tmpl.argsCount = 1

\* the unresolved tokens and the text after one substitution pass, by the
\* documentation: spans are replaced left to right by the text of the first
\* capability (lowest index) that recognises the token
IsSpan(text, j, k) ==
    /\ At(text, j) = "{" /\ At(text, j + 1) = "{"
    /\ At(text, k) = "}" /\ At(text, k + 1) = "}"
    /\ \A m \in (j + 2)..(k - 1) : At(text, m) # "}"

SpanStarts(text, i) ==
    { j \in i..(Len(text) - 4) : \E k \in (j + 2)..(Len(text) - 2) : IsSpan(text, j, k) }

Min(S) == CHOOSE x \in S : \A y \in S : x <= y

RECURSIVE RefPass(_, _, _)
RefPass(text, caps, i) ==
    IF SpanStarts(text, i) = {}
    THEN [text |-> Slice(text, i, Len(text)), unresolved |-> <<>>]
    ELSE LET j     == Min(SpanStarts(text, i))
             k     == CHOOSE k \in (j + 2)..(Len(text) - 2) : IsSpan(text, j, k)
             token == Slice(text, j + 2, k)
             known == { c \in 1..Len(caps) : token \in DOMAIN caps[c] }
             rest  == RefPass(text, caps, k + 2)
         IN  IF known = {}
             THEN [text |-> Slice(text, i, j) \o rest.text,
                   unresolved |-> <<token>> \o rest.unresolved]
             ELSE [text |-> Slice(text, i, j) \o caps[Min(known)][token] \o rest.text,
                   unresolved |-> rest.unresolved]

RefSubst(in) ==
    LET p1 == RefPass(in.statement, in.tokenOptions, 0)
    IN  IF p1.unresolved # <<>> THEN p1
        ELSE IF Contains2(p1.text, <<"{", "{">>) /\ Contains2(p1.text, <<"}", "}">>)
        THEN RefPass(p1.text, in.tokenOptions, 0)
        ELSE p1

MarkerError(pos) == Errorf("named marker ':' without name (at position %d)", Itoa(pos))

\* C8: when the token-substituted text holds a colon that starts neither an
\* escape nor a name (the colon at the very end included), compilation fails,
\* no template is returned, and the error carries the zero-based offset, in
\* the token-substituted text, of the first such colon.
C8_MarkerWithoutName ==
    (op = "NewNamedTemplate" /\ RefSubst(input).unresolved = <<>>) =>
        LET items == RefItems(RefSubst(input).text)
        IN  (items # <<>> /\ IsBad(items[Len(items)])) =>
                /\ tmpl = NoTemplate
                /\ err = MarkerError(items[Len(items)].pos)

\* a failing colon whose offset differs between the statement given and the
\* token-substituted text
C8_Witness ==
    /\ op = "NewNamedTemplate"
    /\ tmpl = NoTemplate
    /\ err = MarkerError(1)
    /\ Count(input.statement, "{") > 0
    /\ At(input.statement, 1) # ":"

\* C9: within one compile an entry is omissible exactly when at least one
\* occurrence of its name is immediately followed by '?', whatever the order
\* of marked and unmarked occurrences and also when the '?' ends the text;
\* the '?' of a marker is consumed and not written to the statement.
C9_OmissibleIffMarked ==
    JustCompiled =>
        LET text   == tmpl.originalStatement
            occ    == Occurrences(text)
            marked == { k \in 1..Len(occ) : occ[k].omissible }
        IN  /\ \A name \in Names :
                  tmpl.args[name].omissible <=> \E k \in marked : occ[k].name = name
            /\ \A k \in marked : occ[k].name \in Names
            /\ Count(tmpl.statement, "?") =
                  Count(text, "?") - Cardinality(marked)
                  + Len(occ) * Count(tmpl.argTag, "?")

\* a name marked omissible at its first occurrence and unmarked at a later one
C9_Witness ==
    /\ JustCompiled
    /\ LET occ == Occurrences(tmpl.originalStatement)
       IN  /\ Len(occ) = 2
           /\ occ[1].name = occ[2].name
           /\ occ[1].omissible /\ ~occ[2].omissible
           /\ tmpl.args[occ[1].name].omissible

\* C10: each {{token}} span is replaced by the text of the first capability,
\* in the order supplied, that recognises the token; a token no capability
\* recognises is unresolved and compilation fails with no template: one
\* unresolved token is reported by name, several are reported comma-joined
\* in encounter order.
C10_TokenResolution ==
    op = "NewNamedTemplate" =>
        LET sub == RefSubst(input)
        IN  /\ Len(sub.unresolved) = 1 =>
                  (tmpl = NoTemplate /\ err = Errorf("unknown token: %s", sub.unresolved[1]))
            /\ Len(sub.unresolved) > 1 =>
                  (tmpl = NoTemplate
                   /\ err = Errorf("unknown tokens: %s", Join(sub.unresolved, <<",", " ">>)))
            /\ sub.unresolved = <<>> =>
                  /\ err.fmt \notin {"unknown token: %s", "unknown tokens: %s"}
                  /\ HasTemplate => tmpl.originalStatement = sub.text

\* two different unresolved tokens, reported in the order met
C10_Witness ==
    /\ op = "NewNamedTemplate"
    /\ tmpl = NoTemplate
    /\ err = Errorf("unknown tokens: %s", <<"u", ",", " ", "t">>)

\* the tokens of the {{ }} spans of a text
SpanTokens(text) ==
    { Slice(text, j + 2, k) : <<j, k>> \in
        { jk \in (0..Len(text)) \X (0..Len(text)) : jk[1] + 2 <= jk[2] /\ jk[2] + 2 <= Len(text)
                                                    /\ IsSpan(text, jk[1], jk[2]) } }

Recognised(caps, token) == \E c \in 1..Len(caps) : token \in DOMAIN caps[c]

\* passes of substitution that are followed when a nesting is resolved fully
MaxNesting == 4

\* resolving the nesting fully, pass after pass, meets an unrecognised token
RECURSIVE MeetsUnknown(_, _, _)
MeetsUnknown(text, caps, fuel) ==
    LET p == RefPass(text, caps, 0)
    IN  IF p.unresolved # <<>> THEN TRUE
        ELSE IF fuel = 0 \/ SpanTokens(p.text) = {} THEN FALSE
        ELSE MeetsUnknown(p.text, caps, fuel - 1)

\* C11 as claimed: the substitution pass repeats as long as the text holds a
\* {{ }} pair, so after a successful compile neither the original text nor
\* the statement holds a span that a capability recognises, and a token that
\* no capability recognises fails the compile at whatever depth it is nested.
C11_NestedToAnyDepth ==
    op = "NewNamedTemplate" =>
        /\ HasTemplate =>
              \A token \in SpanTokens(tmpl.originalStatement) \cup SpanTokens(tmpl.statement) :
                  ~Recognised(input.tokenOptions, token)
        /\ MeetsUnknown(input.statement, input.tokenOptions, MaxNesting) => tmpl = NoTemplate

\* C11 (amended): the substitution pass is repeated once, on the text of the
\* first pass when that text still holds a {{ }} pair.  A token that no
\* capability recognises fails the compile when it is met in the first or in
\* the second pass; after a successful compile the original text is the text
\* of the last pass run, so token definitions nested at most two deep leave
\* no span behind, in the original text or in the statement, and the spans of
\* a deeper nesting stay in both as they are, recognised or not.
C11_NestedOnce ==
    op = "NewNamedTemplate" =>
        LET p1     == RefPass(input.statement, input.tokenOptions, 0)
            again  == p1.unresolved = <<>> /\ SpanTokens(p1.text) # {}
            p2     == RefPass(p1.text, input.tokenOptions, 0)
            last   == IF again THEN p2 ELSE p1
        IN  /\ last.unresolved # <<>> => tmpl = NoTemplate
            /\ HasTemplate =>
                  /\ last.unresolved = <<>>
                  /\ tmpl.originalStatement = last.text
                  /\ SpanTokens(tmpl.statement) = SpanTokens(last.text)
                  /\ SpanTokens(last.text) = {} =>
                        SpanTokens(tmpl.originalStatement) \cup SpanTokens(tmpl.statement) = {}

\* a token nested three deep compiles, and the span of its third level is
\* left in the original text and in the statement
C11_Witness ==
    /\ op = "NewNamedTemplate"
    /\ HasTemplate
    /\ <<"m">> \in SpanTokens(input.statement)
    /\ <<"t">> \in SpanTokens(tmpl.originalStatement)
    /\ <<"t">> \in SpanTokens(tmpl.statement)
    /\ Recognised(input.tokenOptions, <<"t">>)

----------------------------------------------------------------------------
(* Properties of binding *)

\* the nullable-string rule as documented: an empty text, or an optional text
\* whose content is empty, of an entry flagged nullable-string becomes nil
NullableRule(flagged, v) ==
    IF flagged /\ v.kind \in {"string", "strptr"} /\ v.s = "" THEN NilValue ELSE v

MissingArg(name) == Errorf("named arg '%s' missing", name)

\* the last call was Args and it returned positional values
ArgsReturned == op = "Args" /\ err = NoError /\ ~panic.raised

\* C1: when the merged mapping contains every argument name of the template,
\* Args returns no error and ArgsCount values, and every position owned by a
\* name holds the value supplied for it, after the nullable-string rule.
C1_AllNamesPresent ==
    (op = "Args" /\ Names \subseteq DOMAIN lastArgs) =>
        /\ ~panic.raised
        /\ err = NoError
        /\ Len(out) = tmpl.argsCount
        /\ \A name \in Names :
              \A j \in 1..Len(tmpl.args[name].positions) :
                  out[tmpl.args[name].positions[j] + 1] =
                      NullableRule(tmpl.args[name].nullableString, lastArgs[name])

\* C2: when an entry that is not omissible has its name absent from the
\* merged mapping, Args returns an error and no positional values, and the
\* error names a missing argument that is not omissible.
C2_MissingRequired ==
    (op = "Args" /\ \E name \in Names :
                       ~tmpl.args[name].omissible /\ name \notin DOMAIN lastArgs) =>
        /\ ~panic.raised
        /\ out = <<>>
        /\ \E name \in Names :
              /\ ~tmpl.args[name].omissible
              /\ name \notin DOMAIN lastArgs
              /\ err = MissingArg(name)

\* C3: an omissible entry whose name is absent from the merged mapping does
\* not make Args fail, and when Args returns values every position of the
\* entry holds the value of its default provider called with the name, after
\* the nullable-string rule, or nil when the entry has no provider.
C3_OmissibleAbsent ==
    op = "Args" =>
        \A name \in Names :
            (tmpl.args[name].omissible /\ name \notin DOMAIN lastArgs) =>
                /\ ~(panic.raised /\ panic.at = name)
                /\ err # MissingArg(name)
                /\ ArgsReturned =>
                      \A j \in 1..Len(tmpl.args[name].positions) :
                          out[tmpl.args[name].positions[j] + 1] =
                              IF tmpl.args[name].defValue = NoDefault THEN NilValue
                              ELSE NullableRule(tmpl.args[name].nullableString,
                                                CallProvider(tmpl.args[name].defValue, name))

----------------------------------------------------------------------------
(* Properties of derivation *)

\* the entries of n that own position p, each with the index it owns it at
Owners(n, p) ==
    { <<name, i>> \in (DOMAIN n.args) \X (1..n.argsCount) :
          i <= Len(n.args[name].positions) /\ n.args[name].positions[i] = p }

\* every position of n is owned once and no entry owns a position out of range
OwnsEachPositionOnce(n) ==
    /\ \A name \in DOMAIN n.args :
          /\ Len(n.args[name].positions) <= n.argsCount
          /\ \A i \in 1..Len(n.args[name].positions) :
                n.args[name].positions[i] \in 0..(n.argsCount - 1)
    /\ \A p \in 0..(n.argsCount - 1) : Cardinality(Owners(n, p)) = 1

\* C6: in every template reached by compiling and then cloning, appending and
\* changing the policy in any order, each position 0..ArgsCount-1 is owned by
\* exactly one entry, no entry owns a position outside that range, and no
\* position is owned twice.
C6_PositionsOwnedOnce ==
    /\ HasTemplate => OwnsEachPositionOnce(tmpl)
    /\ derived # NoTemplate => OwnsEachPositionOnce(derived)

\* a template whose policy was changed, which repeats a name, is cloned into
\* the other dialect, where the name owns one position instead of two
C6_Witness ==
    /\ op = "Clone"
    /\ HasTemplate /\ derived # NoTemplate
    /\ ~tmpl.usePositionalTags /\ derived.usePositionalTags
    /\ <<"a">> \in DOMAIN tmpl.args /\ <<"b">> \in DOMAIN tmpl.args
    /\ tmpl.argsCount = 3 /\ derived.argsCount = 2
    /\ Len(tmpl.args[<<"a">>].positions) = 2
    /\ tmpl.args[<<"a">>].nullableString /\ tmpl.args[<<"a">>].omissible
    /\ derived.args[<<"a">>].positions = <<0>>

\* the positions of name by the reference reading of text: under a numbered
\* dialect the rank of the name, otherwise the indices of its occurrences
RefPositions(text, numbered, name) ==
    LET occ == Occurrences(text)
        F[k \in 0..Len(occ)] ==
            IF k = 0 THEN <<>>
            ELSE IF occ[k].name = name THEN Append(F[k - 1], k - 1) ELSE F[k - 1]
    IN  IF numbered THEN <<Rank(occ, name) - 1>> ELSE F[Len(occ)]

\* the tag of name by the reference reading of text
RefTag(text, numbered, argTag, name) ==
    IF numbered THEN argTag \o Itoa(Rank(Occurrences(text), name)) ELSE argTag

\* the policy of an entry: omissible flag, default provider, nullable-string flag
Policy(a) == <<a.omissible, a.defValue, a.nullableString>>

SameDialect(n, r) == n.usePositionalTags = r.usePositionalTags /\ n.argTag = r.argTag

\* recompiling the stored original text of n with its token capabilities
\* leaves the text as it is
StableText(n) ==
    LET p == RefPass(n.originalStatement, n.tokenOptions, 0)
    IN  p.unresolved = <<>> /\ p.text = n.originalStatement

\* C12: Clone returns a template with exactly the names of the source and,
\* for each name, the same omissible flag, default provider and
\* nullable-string flag; for the dialect of the source the statement,
\* ArgsCount, tags and positions are those of the source, for another dialect
\* the tags and positions are those of a fresh compile of the original text
\* under that dialect.
C12_CloneKeepsPolicyAndNames ==
    op = "Clone" =>
        /\ ~panic.raised
        /\ derived # NoTemplate
        /\ DOMAIN derived.args = Names
        /\ \A name \in Names \cap DOMAIN derived.args :
              Policy(derived.args[name]) = Policy(tmpl.args[name])
        /\ SameDialect(tmpl, derived) =>
              /\ derived.statement = tmpl.statement
              /\ derived.argsCount = tmpl.argsCount
              /\ \A name \in Names \cap DOMAIN derived.args :
                    /\ derived.args[name].tag = tmpl.args[name].tag
                    /\ derived.args[name].positions = tmpl.args[name].positions
        /\ ~SameDialect(tmpl, derived) =>
              \A name \in Names \cap DOMAIN derived.args :
                  /\ derived.args[name].tag =
                        RefTag(tmpl.originalStatement, derived.usePositionalTags,
                               derived.argTag, name)
                  /\ derived.args[name].positions =
                        RefPositions(tmpl.originalStatement, derived.usePositionalTags, name)

SourceMutators == { "OmissibleArgs", "DefaultValue", "NullableStringArgs" }
DerivedMutators ==
    { "Derived.OmissibleArgs", "Derived.DefaultValue", "Derived.NullableStringArgs" }

\* C13: Clone and Append leave the source template as it was, and the
\* derived template is independent of it: a later OmissibleArgs,
\* DefaultValue or NullableStringArgs on the derived template leaves the
\* source unchanged, and such a call on the source leaves the derived
\* template unchanged.
C13_DerivedIsIndependent ==
    [][ /\ op' \in {"Clone", "Append"} => tmpl' = tmpl
        /\ op' \in DerivedMutators => tmpl' = tmpl
        /\ op' \in SourceMutators => derived' = derived ]_vars

\* a template cloned into its own dialect whose policy then went apart from
\* the policy of the source, by a call on the source and a call on the clone
C13_Witness ==
    /\ op = "Derived.OmissibleArgs"
    /\ HasTemplate /\ derived # NoTemplate
    /\ SameDialect(tmpl, derived)
    /\ derived.originalStatement = tmpl.originalStatement
    /\ <<"a">> \in Names /\ <<"b">> \in Names
    /\ derived.args[<<"b">>].omissible /\ ~tmpl.args[<<"b">>].omissible
    /\ tmpl.args[<<"a">>].nullableString /\ ~derived.args[<<"a">>].nullableString

\* the name has an occurrence marked '?' in text
MarkedIn(text, name) ==
    \E k \in 1..Len(Occurrences(text)) :
        Occurrences(text)[k].name = name /\ Occurrences(text)[k].omissible

\* Append returned a template
Appended == op = "Append" /\ derived # NoTemplate

\* C14: in the template returned by Append, an entry whose name the source
\* has carries the source entry's omissible flag, default provider and
\* nullable-string flag; an entry of a name that only the appended text
\* brings has the flags the text declares: omissible exactly when marked
\* '?', no default provider, not nullable-string.
C14_AppendCarriesPolicy ==
    Appended =>
        \A name \in DOMAIN derived.args :
            IF name \in Names
            THEN /\ tmpl.args[name].omissible => derived.args[name].omissible
                 /\ derived.args[name].defValue = tmpl.args[name].defValue
                 /\ derived.args[name].nullableString = tmpl.args[name].nullableString
            ELSE /\ derived.args[name].omissible <=> MarkedIn(derived.originalStatement, name)
                 /\ derived.args[name].defValue = NoDefault
                 /\ ~derived.args[name].nullableString

\* the text Append compiles: the original text of the source and the portion
Joined == NewInput(tmpl.originalStatement \o input.statement, input.option, input.tokenOptions)

\* the error of compiling a text by the reference reading, NoError when it compiles
RefError(in) ==
    LET sub   == RefSubst(in)
        items == RefItems(sub.text)
    IN  IF Len(sub.unresolved) = 1 THEN Errorf("unknown token: %s", sub.unresolved[1])
        ELSE IF Len(sub.unresolved) > 1
        THEN Errorf("unknown tokens: %s", Join(sub.unresolved, <<",", " ">>))
        ELSE IF items # <<>> /\ IsBad(items[Len(items)])
        THEN MarkerError(items[Len(items)].pos)
        ELSE NoError

\* C15: Append compiles the original text of the source joined with the
\* portion as one new compile under the dialect and the token capabilities
\* of the source.  When the joined text compiles, the statement, ArgsCount,
\* names, tags and positions of the result are those of the joined text;
\* when it does not (a marker without a name, an unresolved token), Append
\* returns the error and no template.
C15_AppendIsOneCompile ==
    op = "Append" =>
        LET text  == RefSubst(Joined).text
            items == RefItems(text)
            occ   == Occurrences(text)
            num   == tmpl.usePositionalTags
        IN  /\ err = RefError(Joined)
            /\ err # NoError => derived = NoTemplate
            /\ err = NoError =>
                  /\ derived # NoTemplate
                  /\ SameDialect(tmpl, derived)
                  /\ derived.tokenOptions = tmpl.tokenOptions
                  /\ derived.originalStatement = text
                  /\ DOMAIN derived.args = OccNames(text)
                  /\ derived.argsCount = IF num THEN Cardinality(OccNames(text)) ELSE Len(occ)
                  /\ \A name \in DOMAIN derived.args :
                        /\ derived.args[name].tag = RefTag(text, num, tmpl.argTag, name)
                        /\ derived.args[name].positions = RefPositions(text, num, name)
                  /\ derived.statement =
                        Render(items, [name \in OccNames(text) |->
                                          RefTag(text, num, tmpl.argTag, name)])

\* a numbered source with two names to which a portion that repeats one of
\* them is appended: the statement grows, ArgsCount and the tag stay
C15_Witness ==
    /\ Appended
    /\ tmpl.usePositionalTags
    /\ input.statement = <<":", "a">>
    /\ tmpl.argsCount = 2 /\ derived.argsCount = 2
    /\ <<"a">> \in Names
    /\ derived.args[<<"a">>].tag = tmpl.args[<<"a">>].tag
    /\ Len(derived.statement) > Len(tmpl.statement)

\* C16: the omissible flag stays monotonic across Append: in the template
\* Append returns, a name that has an occurrence marked '?' anywhere in the
\* combined text, or whose entry was omissible in the source, is omissible.
C16_AppendKeepsOmissible ==
    Appended =>
        \A name \in DOMAIN derived.args :
            (\/ MarkedIn(derived.originalStatement, name)
             \/ (name \in Names /\ tmpl.args[name].omissible))
                => derived.args[name].omissible


----------------------------------------------------------------------------
(* Properties of the mutators *)

\* the entry of name is omissible after OmissibleArgs(names...) exactly when
\* the call covers it or it was omissible before
OmissibleAfter(before, names, name) ==
    names = {} \/ name \in names \/ before.args[name].omissible

\* C17: OmissibleArgs without names makes every entry omissible, and with
\* names makes the named entries that exist omissible and leaves the flag of
\* every other entry as it was; DefaultValue(name, v) on an existing name makes
\* the entry omissible and installs the provider of the call (for a plain
\* value, a provider that returns it), whatever provider was installed before
C17_OmissibleAndDefault ==
    [][ /\ op' = "OmissibleArgs" =>
              \A name \in DOMAIN tmpl.args :
                  tmpl'.args[name].omissible = OmissibleAfter(tmpl, call'.names, name)
        /\ (op' = "DefaultValue" /\ call'.name \in DOMAIN tmpl.args) =>
              /\ tmpl'.args[call'.name].omissible
              /\ tmpl'.args[call'.name].defValue = call'.v
              /\ call'.v.kind = "const" =>
                    CallProvider(tmpl'.args[call'.name].defValue, call'.name) = call'.v.v
      ]_vars

\* OmissibleArgs("a") on a template of ":a" and ":b", both required until
\* then, has made ":a" omissible and left ":b" required
C17_Witness ==
    /\ op = "OmissibleArgs" /\ call = NamesCall({<<"a">>})
    /\ DOMAIN tmpl.args = { <<"a">>, <<"b">> }
    /\ tmpl.args[<<"a">>].omissible /\ ~tmpl.args[<<"b">>].omissible


\* what a compile fixes of a template: the texts, the count, the names and
\* each entry's tag and positions
SameParse(n, n1) ==
    /\ n1.originalStatement = n.originalStatement
    /\ n1.statement = n.statement
    /\ n1.argsCount = n.argsCount
    /\ n1.usePositionalTags = n.usePositionalTags
    /\ n1.argTag = n.argTag
    /\ DOMAIN n1.args = DOMAIN n.args
    /\ \A name \in DOMAIN n.args :
          /\ n1.args[name].tag = n.args[name].tag
          /\ n1.args[name].positions = n.args[name].positions

\* the names a mutator call was given, and the entries it covers: a call of
\* OmissibleArgs without names covers every entry
CallNames(c) == IF "name" \in DOMAIN c THEN {c.name} ELSE c.names
CallCovers(o, c, name) ==
    \/ name \in CallNames(c)
    \/ o = "OmissibleArgs" /\ CallNames(c) = {}

\* C18: OmissibleArgs, DefaultValue and NullableStringArgs change policy in
\* place: after each of them the original text, the statement, ArgsCount, the
\* names and each entry's tag and positions are those the compile of the
\* template gave; an entry the call does not name is left as it was, so that a
\* call with only unknown names changes nothing; and the template held is the
\* same object with the same entries
C18_MutatorsKeepTheParse ==
    [][ op' \in SourceMutators =>
          /\ SameParse(tmpl, tmpl')
          /\ SameParse(NewNamedTemplateResult(input'.statement, input'.option,
                                              input'.tokenOptions).n, tmpl')
          /\ \A name \in DOMAIN tmpl.args :
                ~CallCovers(op', call', name) => tmpl'.args[name] = tmpl.args[name]
          /\ refs'.tmpl = refs.tmpl
      ]_vars

\* DefaultValue("b", v) on a template without ":b" has left it as it was
C18_Witness ==
    /\ op = "DefaultValue" /\ call.name = <<"b">>
    /\ HasTemplate /\ DOMAIN tmpl.args = { <<"a">> }
    /\ ~tmpl.args[<<"a">>].omissible


----------------------------------------------------------------------------
(* Properties of the values written *)

\* the entry of name has a resolved value in the last Args call: the value
\* supplied for it, or else the value of its default provider
HasResolved(name) ==
    name \in DOMAIN lastArgs \/ tmpl.args[name].defValue # NoDefault
Resolved(name) ==
    IF name \in DOMAIN lastArgs THEN lastArgs[name]
    ELSE CallProvider(tmpl.args[name].defValue, name)

\* the value Args wrote for name is w: every position of the entry holds it
Written(name, w) ==
    \A j \in 1..Len(tmpl.args[name].positions) :
        out[tmpl.args[name].positions[j] + 1] = w

EmptyTexts == { StringValue(""), StringPtr("") }

\* C19: in the values Args returns, an entry flagged nullable-string whose
\* resolved value (supplied, or produced by its default provider) is the empty
\* text or an optional text with empty content holds nil; a non-empty text, a
\* value that is no text, and any value of an entry that is not flagged, the
\* empty text included, are held unchanged
C19_NullableStringRule ==
    ArgsReturned =>
        \A name \in Names :
            HasResolved(name) =>
                IF tmpl.args[name].nullableString /\ Resolved(name) \in EmptyTexts
                THEN Written(name, NilValue)
                ELSE Written(name, Resolved(name))

\* Args has returned nil for the empty optional text of a flagged ":a" and
\* the empty text itself for ":b", which is not flagged
C19_Witness ==
    /\ ArgsReturned
    /\ DOMAIN tmpl.args = { <<"a">>, <<"b">> }
    /\ tmpl.args[<<"a">>].nullableString /\ ~tmpl.args[<<"b">>].nullableString
    /\ DOMAIN lastArgs = { <<"a">>, <<"b">> }
    /\ lastArgs[<<"a">>] = StringPtr("") /\ lastArgs[<<"b">>] = StringValue("")
    /\ Written(<<"a">>, NilValue) /\ Written(<<"b">>, StringValue(""))


----------------------------------------------------------------------------
(* Properties of the merge of the sources *)

\* the sources of the last Args call
CallArgs == call.args

\* the names a source holds
SourceNames(arg) == DOMAIN arg.m

\* the last source of the call that holds name
LastWith(name) ==
    CHOOSE i \in 1..Len(CallArgs) :
        /\ name \in SourceNames(CallArgs[i])
        /\ \A j \in (i + 1)..Len(CallArgs) : name \notin SourceNames(CallArgs[j])

\* the errors of a source that cannot be read as a mapping
InvalidSource ==
    { Errorf("invalid map - keys must be string", <<>>),
      Errorf("json: cannot unmarshal number into Go value of type map[string]interface {}", <<>>) }

\* Args has been called with sources of the given kinds only, and has merged
\* them left to right without fault: the mapping holds the names of all the
\* sources, each with the value of the last source that holds it
MergedLeftToRight(kinds) ==
    (op = "Args" /\ \A i \in 1..Len(CallArgs) : CallArgs[i].kind \in kinds) =>
        /\ ~panic.raised
        /\ err \notin InvalidSource
        /\ DOMAIN lastArgs = UNION { SourceNames(CallArgs[i]) : i \in 1..Len(CallArgs) }
        /\ \A name \in DOMAIN lastArgs :
              lastArgs[name] = CallArgs[LastWith(name)].m[name]

\* C20: the sources of an Args call are merged left to right into one
\* mapping: each name is bound to the value of the last source that holds it;
\* a nil source, a nil interface or a nil pointer to a name/value pair, is
\* skipped without error and changes nothing; maps, name/value pairs and maps
\* of other types with string keys may be mixed in one call
C20_LastSourceWins ==
    MergedLeftToRight({ "nil", "nilnamedptr", "map", "named", "reflectmap" })


----------------------------------------------------------------------------
(* Properties of binding again *)

\* the names the sources of a call supply, and whether every source can be
\* read as a mapping
Supplied(c) == UNION { DOMAIN c.args[i].m : i \in 1..Len(c.args) }
ValidSources(c) ==
    \A i \in 1..Len(c.args) : c.args[i].kind \notin { "badmap", "number" }

\* the call c supplies every required name of n from valid sources
SuppliesRequired(n, c) ==
    /\ ValidSources(c)
    /\ \A name \in DOMAIN n.args : ~n.args[name].omissible => name \in Supplied(c)

\* what an Args call on n with the sources of c returns when it is the only
\* call ever made, for some visiting order
AloneResults(n, c) ==
    { [out |-> r.out, err |-> r.err, panic |-> r.panic] :
        r \in { ArgsResult(n, c.args, order) : order \in Orders(DOMAIN n.args) } }

\* C21: Args does not change the template, whether it returns values or an
\* error; and an Args call that follows other Args calls, failed or not, and
\* supplies every required name returns values, the values it returns when no
\* call was made before it
C21_BindIsRetriable ==
    [][ op' \in { "Args", "ArgsAgain" } =>
          /\ tmpl' = tmpl
          /\ (op' = "ArgsAgain" /\ SuppliesRequired(tmpl, call')) =>
                /\ ~panic'.raised
                /\ err' = NoError
                /\ Len(out') = tmpl.argsCount
                /\ [out |-> out', err |-> err', panic |-> panic'] \in AloneResults(tmpl, call')
      ]_vars



----------------------------------------------------------------------------
(* Properties of introspection *)

\* the steps by which the caller changes the returned data
ChangesOfReturnedData ==
    { "names[name] = b", "infos[name].Omissible = b", "infos[name].Positions[j] = v" }

\* C22: what GetArgNames and GetArgsInfo return is a snapshot: no change the
\* caller makes to the returned data, the elements of a returned Positions
\* list included, changes the template, so that a later Args call writes to
\* the positions compile gave and a later GetArgsInfo reports them
C22_ReturnedDataIsSnapshot ==
    [][ /\ op' \in ChangesOfReturnedData => tmpl' = tmpl
        /\ op' \in { "Args", "GetArgsInfo" } =>
              \A name \in DOMAIN tmpl.args :
                  tmpl.args[name].positions =
                      NewNamedTemplateResult(input.statement, input.option,
                                             input.tokenOptions).n.args[name].positions
      ]_vars


----------------------------------------------------------------------------
(* Properties of concurrent binding *)

\* what the invocation pr has returned
Returned(pr) == [out |-> pr.out, err |-> pr.err, panic |-> NoPanic]

\* C23: when Args invocations run concurrently on a template and no mutator
\* runs, the template is unchanged by every step, no invocation is cut off
\* before it returns, and each invocation returns values or an error that it
\* returns when it runs alone
C23_ConcurrentArgs ==
    [][ op' = "go" =>
          /\ tmpl' = tmpl
          /\ \A p \in 1..MaxProcs :
                /\ procs'[p].pc = "loop" => ~panic'.raised
                /\ procs'[p].pc = "done" =>
                      Returned(procs'[p]) \in AloneResults(tmpl, ArgsCall(procs'[p].args))
      ]_vars


----------------------------------------------------------------------------
(* Properties of the visiting order *)

\* the outcome of the last Args call
Outcome == [out |-> out, err |-> err, panic |-> panic]

\* C24: the order in which Args visits the entries does not affect the
\* result: the outcome of an Args call, its values or its error with the
\* argument the error names, is the outcome of the call for every visiting
\* order
C24_OrderDoesNotMatter ==
    op = "Args" => AloneResults(tmpl, call) = { Outcome }


----------------------------------------------------------------------------
(* Properties of Append and the positions of the source *)

\* s is a prefix of t
IsPrefix(s, t) == Len(s) <= Len(t) /\ SubSeq(t, 1, Len(s)) = s

\* C25: Append preserves the positions of the source: every name of the
\* source is a name of the template Append returns, the positions the source
\* entry owns are the first positions the entry of the result owns, in the same
\* order, under a numbered dialect the tag is the same, and the statement of
\* the source is a prefix of the statement of the result
C25_AppendKeepsPositions ==
    Appended =>
        /\ IsPrefix(tmpl.statement, derived.statement)
        /\ \A name \in DOMAIN tmpl.args :
              /\ name \in DOMAIN derived.args
              /\ IsPrefix(tmpl.args[name].positions, derived.args[name].positions)
              /\ tmpl.usePositionalTags => derived.args[name].tag = tmpl.args[name].tag


----------------------------------------------------------------------------
(* Properties of the values supplied *)

\* the mapping m without the names that are not in S
Restrict(m, S) == [name \in DOMAIN m \cap S |-> m[name]]

\* C26: a value in the merged mapping wins over the policy of the entry:
\* when the mapping holds the name of an entry, Args does not fault on the
\* entry and raises no missing-argument error for it, omissible or not, and the
\* values Args returns hold at every position of the entry the value of the
\* mapping, the nil value too, after the nullable-string rule and not the value
\* of the default provider; names of the mapping that the template does not
\* have change nothing
C26_SuppliedValueWins ==
    op = "Args" =>
        /\ \A name \in Names \cap DOMAIN lastArgs :
              /\ ~(panic.raised /\ panic.at = name)
              /\ err # MissingArg(name)
              /\ ArgsReturned =>
                    Written(name, NullableRule(tmpl.args[name].nullableString,
                                               lastArgs[name]))
        /\ Outcome \in AloneResults(tmpl, ArgsCall(<<MapSource(Restrict(lastArgs, Names))>>))


----------------------------------------------------------------------------
(* Properties of the policy over time *)

\* C27: the policy flags of a template are irrevocable: in every step of a
\* sequence of OmissibleArgs, DefaultValue, NullableStringArgs and Args calls
\* an entry that is omissible stays omissible, an entry flagged nullable-string
\* stays flagged, and an entry that has a default provider still has one
C27_PolicyIsIrrevocable ==
    [][ \A name \in DOMAIN tmpl.args :
          /\ name \in DOMAIN tmpl'.args
          /\ tmpl.args[name].omissible => tmpl'.args[name].omissible
          /\ tmpl.args[name].nullableString => tmpl'.args[name].nullableString
          /\ tmpl.args[name].defValue # NoDefault => tmpl'.args[name].defValue # NoDefault
      ]_vars


----------------------------------------------------------------------------
(* Properties of the passes of compilation *)

\* C28: compilation terminates for every text and every set of token
\* capabilities, those whose replacement texts refer to themselves or to each
\* other included: a compile that is started returns, after at most two
\* substitution passes, with a template or with an error
C28_CompileTerminates ==
    (op = "compiling") ~>
        (/\ op = "NewNamedTemplate"
         /\ build.passes \in 1..2
         /\ HasTemplate = (err = NoError)
         /\ [n |-> tmpl, err |-> err] =
               NewNamedTemplateResult(input.statement, input.option, input.tokenOptions))

\* the compile of "{{t}}" with t replaced by "{{t}}" has returned after two
\* passes, with the span still in the text
C28_Witness ==
    /\ op = "NewNamedTemplate"
    /\ input.statement = Tok(<<"t">>) /\ input.tokenOptions = <<CapCycle>>
    /\ build.passes = 2
    /\ HasTemplate /\ tmpl.originalStatement = Tok(<<"t">>)


----------------------------------------------------------------------------
(* Properties of recompiling the stored text *)

\* the template Clone rebuilds from the stored text of n under the dialect opt
Recompiled(n, opt) ==
    buildArgs(newNamedTemplate(n.originalStatement, opt.usePositionalTags, opt.argTag,
                               n.tokenOptions))

\* C29: compile is stable on its own output, so Clone cannot fail: for every
\* compiled template, recompiling its stored original text with its token
\* capabilities under any dialect succeeds, leaves the text as it is and gives
\* the same set of names; a Clone returns a built template with the names of
\* the source and raises no panic while the flags are copied
C29_CompileIsStable ==
    HasTemplate =>
        /\ \A opt \in Options :
              /\ Recompiled(tmpl, opt).err = NoError
              /\ Recompiled(tmpl, opt).n.originalStatement = tmpl.originalStatement
              /\ DOMAIN Recompiled(tmpl, opt).n.args = Names
        /\ op = "Clone" =>
              /\ ~panic.raised
              /\ derived # NoTemplate
              /\ DOMAIN derived.args = Names


----------------------------------------------------------------------------
(* Properties of the faults of binding *)

\* C30: Args never faults on an input value: for every template and every
\* merged mapping, one that supplies a nil text pointer for an entry flagged
\* nullable-string included, Args returns the positional values or an error
\* and raises no panic
C30_ArgsNeverFaults ==
    op = "Args" =>
        /\ ~panic.raised
        /\ ArgsReturned \/ err # NoError

====
